---------------------------- MODULE Spec2Model ----------------------------
(***************************************************************************)
(* Knowledge ingestion and validation pipeline of brain-os.                *)
(*                                                                         *)
(* The durable store is the SQLite database written by                     *)
(* storage/sqlite_adapter.py; the mirror is st.session_state.  Strings     *)
(* that the code inspects (entity names, evidence spans) are sequences of  *)
(* one-character strings, so that lower(), strip(), startswith(),          *)
(* endswith() and the substring test are computed as Python computes them. *)
(* Confidence values are floats in the code; here they are integers in     *)
(* tenths (0.5 is 5, 1.0 is 10): the code only compares them and takes     *)
(* their minimum, so the scale changes nothing.                            *)
(***************************************************************************)
EXTENDS Integers, Sequences, FiniteSets, TLC

(***************************************************************************)
(* Python string primitives                                                *)
(***************************************************************************)
Whitespace == {" ", "\t", "\n"}

UpperChars == <<"A", "B", "C", "D", "E", "F", "G", "H", "I", "J", "K", "L", "M",
                "N", "O", "P", "Q", "R", "S", "T", "U", "V", "W", "X", "Y", "Z">>

LowerChars == <<"a", "b", "c", "d", "e", "f", "g", "h", "i", "j", "k", "l", "m",
                "n", "o", "p", "q", "r", "s", "t", "u", "v", "w", "x", "y", "z">>

LowerMap ==
    [c \in {UpperChars[i] : i \in 1..Len(UpperChars)} |->
        LowerChars[CHOOSE i \in 1..Len(UpperChars) : UpperChars[i] = c]]

LowerChar(c) == IF c \in DOMAIN LowerMap THEN LowerMap[c] ELSE c

\* str.lower()
Lower(s) == [i \in 1..Len(s) |-> LowerChar(s[i])]

RECURSIVE LStrip(_)
LStrip(s) ==
    IF s # <<>> /\ Head(s) \in Whitespace THEN LStrip(Tail(s)) ELSE s

RECURSIVE RStrip(_)
RStrip(s) ==
    IF s # <<>> /\ s[Len(s)] \in Whitespace
    THEN RStrip(SubSeq(s, 1, Len(s) - 1))
    ELSE s

\* str.strip()
Strip(s) == RStrip(LStrip(s))

\* s.startswith(p)
StartsWith(s, p) == Len(p) <= Len(s) /\ SubSeq(s, 1, Len(p)) = p

\* s.endswith(p)
EndsWith(s, p) ==
    Len(p) <= Len(s) /\ SubSeq(s, Len(s) - Len(p) + 1, Len(s)) = p

\* p in s
Contains(s, p) ==
    \E i \in 0..(Len(s) - Len(p)) : SubSeq(s, i + 1, i + Len(p)) = p

Min2(a, b) == IF a <= b THEN a ELSE b

\* an empty dict, equally None: the code only tests such values for truth
EmptyDict == <<>>

\* a numeric property value (tenths) and a string property value
Num(n) == [kind |-> "num", v |-> n]
Str(x) == [kind |-> "str", s |-> x]

normalize_entity_name(name) == Strip(Lower(name))

(***************************************************************************)
(* Pre-validation guards (validation/validation_rules.py)                  *)
(***************************************************************************)
type_words ==
    { <<"i", "s", " ", "a">>,
      <<"b", "e", "l", "o", "n", "g", "s", " ", "t", "o">>,
      <<"t", "y", "p", "e", " ", "o", "f">>,
      <<"k", "i", "n", "d", " ", "o", "f">>,
      <<"c", "l", "a", "s", "s", " ", "o", "f">> }

question_prefixes ==
    { <<"d", "o", "e", "s">>, <<"i", "s">>, <<"a", "r", "e">>, <<"c", "a", "n">> }

imperative_cues ==
    { <<"p", "r", "a", "c", "t", "i", "c", "e", " ">>,
      <<"d", "o", " ", "n", "o", "t", " ">>,
      <<"d", "o", "n", "'", "t", " ">>,
      <<"t", "r", "y", " ", "t", "o", " ">>,
      <<"l", "e", "t", " ", "u", "s", " ">>,
      <<"y", "o", "u", " ", "m", "u", "s", "t", " ">>,
      <<"s", "h", "o", "u", "l", "d", " ">> }

block_invalid_is_a(rel) ==
    IF rel.machine_name = "is_a"
    THEN LET evidence == Lower(rel.evidence_span)
         IN  \E w \in type_words : Contains(evidence, w)
    ELSE TRUE

block_question_evidence_no_strip(rel) ==
    LET text == rel.evidence_span
    IN  ~(\/ EndsWith(text, <<"?">>)
          \/ \E p \in question_prefixes : StartsWith(Lower(text), p))

block_question_evidence(rel) ==
    LET text == Strip(rel.evidence_span)
    IN  ~(\/ EndsWith(text, <<"?">>)
          \/ \E p \in question_prefixes : StartsWith(Lower(text), p))

\* the registry the two @register_rule decorators fill, in order
VALIDATION_RULES == <<"block_invalid_is_a", "block_question_evidence">>

validation_rule(name, rel) ==
    CASE name = "block_invalid_is_a" -> block_invalid_is_a(rel)
      [] name = "block_question_evidence" -> block_question_evidence(rel)

run_all_validation_rules(rel) ==
    \A i \in 1..Len(VALIDATION_RULES) : validation_rule(VALIDATION_RULES[i], rel)

(***************************************************************************)
(* Ontology rules (ontology/ontology_rules.py): each returns a score       *)
(***************************************************************************)
r1_instance_target_concept(rel, rt, s, t) ==
    IF rt.machine_name = "instance_of" /\ t.type # "Concept" THEN 0 ELSE 10

r2_subclass_concept(rel, rt, s, t) ==
    IF rt.machine_name = "subclass_of" /\ (s.type # "Concept" \/ t.type # "Concept")
    THEN 0 ELSE 10

r5_deterministic_prob(rel, rt, s, t) ==
    IF /\ rt.deterministic
       /\ "probability" \in DOMAIN rel.semantic_properties
       /\ rel.semantic_properties["probability"].kind = "num"
       /\ rel.semantic_properties["probability"].v < 10
    THEN 0 ELSE 10

r6_temporal_lag(rel, rt, s, t) ==
    IF rt.category = "temporal" /\ "temporal_lag" \notin DOMAIN rel.semantic_properties
    THEN 0 ELSE 10

r10_hypothesis_deterministic(rel, rt, s, t) ==
    IF rel.usage_context = "hypothesis" /\ rt.deterministic THEN 0 ELSE 10

r3_causal_target_person(rel, rt, s, t) ==
    IF rt.category = "causal" /\ t.type = "Person" THEN 5 ELSE 10

r7_concept_act(rel, rt, s, t) ==
    IF s.type = "Concept" /\ rt.machine_name \in {"causes", "teaches", "performs"}
    THEN 5 ELSE 10

r8_teaches_agent(rel, rt, s, t) ==
    IF rt.machine_name = "teaches" /\ s.type \notin {"Person", "Organization"}
    THEN 5 ELSE 10

r4_imperative_evidence(rel, rt, s, t) ==
    LET span_lower == Lower(rel.evidence_span)
    IN  IF /\ rt.machine_name = "performs"
           /\ \E cue \in imperative_cues : Contains(span_lower, cue)
        THEN 3 ELSE 10

r11_is_a_evidence_check(rel, rt, s, t) ==
    IF rt.machine_name = "is_a"
    THEN LET evidence == Lower(rel.evidence_span)
         IN  IF \E w \in type_words : Contains(evidence, w) THEN 10 ELSE 0
    ELSE 10

r9_evidence_names(rel, rt, s, t) ==
    LET span == Lower(rel.evidence_span)
    IN  IF ~Contains(span, Lower(s.name)) \/ ~Contains(span, Lower(t.name))
        THEN 6 ELSE 10

\* the three rule lists, in registration order
ONTOLOGY_CONSTRAINTS == <<"R1", "R2", "R5", "R6", "R10">>
HEURISTIC_RULES == <<"R3", "R7", "R8", "R4", "R11">>
EVIDENCE_RULES == <<"R9">>

\* OntologyRule.evaluate
evaluate(rule, rel, rt, s, t) ==
    CASE rule = "R1" -> r1_instance_target_concept(rel, rt, s, t)
      [] rule = "R2" -> r2_subclass_concept(rel, rt, s, t)
      [] rule = "R5" -> r5_deterministic_prob(rel, rt, s, t)
      [] rule = "R6" -> r6_temporal_lag(rel, rt, s, t)
      [] rule = "R10" -> r10_hypothesis_deterministic(rel, rt, s, t)
      [] rule = "R3" -> r3_causal_target_person(rel, rt, s, t)
      [] rule = "R7" -> r7_concept_act(rel, rt, s, t)
      [] rule = "R8" -> r8_teaches_agent(rel, rt, s, t)
      [] rule = "R4" -> r4_imperative_evidence(rel, rt, s, t)
      [] rule = "R11" -> r11_is_a_evidence_check(rel, rt, s, t)
      [] rule = "R9" -> r9_evidence_names(rel, rt, s, t)

(***************************************************************************)
(* calculate_ontology_confidence (validation/ontology_confidence.py).      *)
(* The loops are folded over a record that carries the running score, the  *)
(* rules evaluated so far and whether the function has returned.           *)
(***************************************************************************)
RECURSIVE ConstraintLoopNoReturn(_, _, _, _, _, _)
ConstraintLoopNoReturn(i, acc, rel, rt, s, t) ==
    IF i > Len(ONTOLOGY_CONSTRAINTS) THEN acc
    ELSE LET rule == ONTOLOGY_CONSTRAINTS[i]
             sc == evaluate(rule, rel, rt, s, t)
         IN  ConstraintLoopNoReturn(i + 1,
                 [acc EXCEPT !.score = Min2(acc.score, sc),
                             !.evaluated = Append(acc.evaluated, rule)],
                 rel, rt, s, t)

RECURSIVE ConstraintLoop(_, _, _, _, _, _)
ConstraintLoop(i, acc, rel, rt, s, t) ==
    IF i > Len(ONTOLOGY_CONSTRAINTS) THEN acc
    ELSE LET rule == ONTOLOGY_CONSTRAINTS[i]
             sc == evaluate(rule, rel, rt, s, t)
         IN  IF sc = 0
             THEN [score |-> 0, evaluated |-> Append(acc.evaluated, rule),
                   returned |-> TRUE]
             ELSE ConstraintLoop(i + 1,
                      [acc EXCEPT !.score = Min2(acc.score, sc),
                                  !.evaluated = Append(acc.evaluated, rule)],
                      rel, rt, s, t)

RECURSIVE SoftLoopProduct(_, _, _, _, _, _, _)
SoftLoopProduct(rules, i, acc, rel, rt, s, t) ==
    IF i > Len(rules) THEN acc
    ELSE LET sc == evaluate(rules[i], rel, rt, s, t)
         IN  SoftLoopProduct(rules, i + 1,
                 [acc EXCEPT !.score = (acc.score * sc) \div 10,
                             !.evaluated = Append(acc.evaluated, rules[i])],
                 rel, rt, s, t)

\* the loops over HEURISTIC_RULES and EVIDENCE_RULES
RECURSIVE SoftLoop(_, _, _, _, _, _, _)
SoftLoop(rules, i, acc, rel, rt, s, t) ==
    IF i > Len(rules) THEN acc
    ELSE LET sc == evaluate(rules[i], rel, rt, s, t)
         IN  SoftLoop(rules, i + 1,
                 [acc EXCEPT !.score = Min2(acc.score, sc),
                             !.evaluated = Append(acc.evaluated, rules[i])],
                 rel, rt, s, t)

ontology_confidence_run(rel, rt, s, t) ==
    LET start == [score |-> 10, evaluated |-> <<>>, returned |-> FALSE]
        hard == ConstraintLoop(1, start, rel, rt, s, t)
    IN  IF hard.returned THEN hard
        ELSE SoftLoop(EVIDENCE_RULES, 1,
                 SoftLoop(HEURISTIC_RULES, 1, hard, rel, rt, s, t),
                 rel, rt, s, t)

calculate_ontology_confidence(rel, rt, s, t) ==
    ontology_confidence_run(rel, rt, s, t).score

(***************************************************************************)
(* Schema check and admission gate (validation/relation_validator.py)      *)
(***************************************************************************)
\* dict.get(key, []) on allowed_entity_types
AllowedGet(allowed, key) == IF key \in DOMAIN allowed THEN allowed[key] ELSE {}

validate_extracted_relationship_target_only(rel, rel_type, source_entity, target_entity) ==
    /\ rel_type.allowed_entity_types # EmptyDict =>
          target_entity.type \in AllowedGet(rel_type.allowed_entity_types, "target")
    /\ rel_type.properties_schema # EmptyDict =>
          \A key \in DOMAIN rel_type.properties_schema :
              key \in DOMAIN rel.semantic_properties

validate_extracted_relationship(rel, rel_type, source_entity, target_entity) ==
    /\ rel_type.allowed_entity_types # EmptyDict =>
          /\ source_entity.type \in AllowedGet(rel_type.allowed_entity_types, "source")
          /\ target_entity.type \in AllowedGet(rel_type.allowed_entity_types, "target")
    /\ rel_type.properties_schema # EmptyDict =>
          \A key \in DOMAIN rel_type.properties_schema :
              /\ key \in DOMAIN rel.semantic_properties
              /\ rel_type.properties_schema[key].type = "enum" =>
                    rel.semantic_properties[key] \in rel_type.properties_schema[key].values

\* the admission threshold of full_relation_validation, in tenths
AdmissionThreshold == 5

full_relation_validation_strict(rel, rel_type, source_entity, target_entity) ==
    /\ run_all_validation_rules(rel)
    /\ ~(calculate_ontology_confidence(rel, rel_type, source_entity, target_entity)
            <= AdmissionThreshold)
    /\ validate_extracted_relationship(rel, rel_type, source_entity, target_entity)

full_relation_validation_no_schema(rel, rel_type, source_entity, target_entity) ==
    /\ run_all_validation_rules(rel)
    /\ ~(calculate_ontology_confidence(rel, rel_type, source_entity, target_entity)
            < AdmissionThreshold)

full_relation_validation(rel, rel_type, source_entity, target_entity) ==
    /\ run_all_validation_rules(rel)
    /\ ~(calculate_ontology_confidence(rel, rel_type, source_entity, target_entity)
            < AdmissionThreshold)
    /\ validate_extracted_relationship(rel, rel_type, source_entity, target_entity)

(***************************************************************************)
(* Bounds of the model                                                     *)
(***************************************************************************)
\* entities created over the whole session
MaxEntities == 2
\* relation assertions (and their evidence rows) created over the session
MaxAssertions == 1

(***************************************************************************)
(* The relationship-type registry the session starts with: three of the    *)
(* seeded defaults of init_db and one type brought in by the ontology      *)
(* import, which declares allowed entity types and a property schema.      *)
(***************************************************************************)
SeedType(name, cat) ==
    [id |-> name, machine_name |-> name, description |-> "t0", category |-> cat,
     deterministic |-> FALSE, allowed_entity_types |-> EmptyDict,
     properties_schema |-> EmptyDict, version |-> "1.0", deprecated |-> FALSE]

MentorsType ==
    [id |-> "mentors", machine_name |-> "mentors", description |-> "t0",
     category |-> "social",
     deterministic |-> FALSE,
     allowed_entity_types |->
         [k \in {"source", "target"} |->
             IF k = "source" THEN {"Person"} ELSE {"Person", "Organization"}],
     properties_schema |->
         [k \in {"mode"} |->
             [type |-> "enum", values |-> {Str("formal"), Str("informal")}]],
     version |-> "2.0", deprecated |-> FALSE]

InitialTypes ==
    << SeedType("is_a", "hierarchical"), SeedType("teaches", "social"),
       SeedType("instance_of", "hierarchical"), MentorsType >>

(***************************************************************************)
(* What the oracle may return: candidate entities and relationships        *)
(***************************************************************************)
Name_a == <<"a">>
Name_A_ == <<"A", " ">>
Name_b == <<"b">>
Name_c == <<"c">>

Ev_a_is_a_b == <<"a", " ", "i", "s", " ", "a", " ", "b">>
Ev_a_is_a_b_Q == <<"a", " ", "i", "s", " ", "a", " ", "b", "?", " ">>
Ev_a_b == <<"a", " ", "b">>
Ev_x_y == <<"x", " ", "y">>

ExtractedEntity(n, ty, d, kw, c) ==
    [name |-> n, type |-> ty, description |-> d, keywords |-> kw, confidence |-> c]

EntityCandidates ==
    { ExtractedEntity(Name_a, "Concept", "d1", <<"k1">>, 9),
      ExtractedEntity(Name_A_, "Person", "d2", <<"k2">>, 7),
      ExtractedEntity(Name_b, "Person", "d3", <<"k1">>, 8) }

ExtractedRelationship(m, src, tgt, props, ev, c) ==
    [machine_name |-> m, source_entity |-> src, target_entity |-> tgt,
     semantic_properties |-> props, usage_context |-> "definition",
     evidence_span |-> ev, confidence |-> c]

ModeFormal == [k \in {"mode"} |-> Str("formal")]

RelationshipCandidates ==
    { \* admitted between a and b
      ExtractedRelationship("is_a", Name_a, Name_b, EmptyDict, Ev_a_is_a_b, 9),
      \* the same with question-form evidence
      ExtractedRelationship("is_a", Name_a, Name_b, EmptyDict, Ev_a_is_a_b_Q, 9),
      \* the same with a confidence the oracle reports as 1.5
      ExtractedRelationship("is_a", Name_a, Name_b, EmptyDict, Ev_a_is_a_b, 15),
      \* both endpoints resolve to the entity normalized as "a"
      ExtractedRelationship("is_a", Name_a, Name_A_, EmptyDict, Ev_a_is_a_b, 9),
      \* the source is not among the run's entities
      ExtractedRelationship("is_a", Name_c, Name_b, EmptyDict, Ev_a_is_a_b, 9),
      \* teaches from "a", which may be a Concept or a Person
      ExtractedRelationship("teaches", Name_A_, Name_b, EmptyDict, Ev_a_b, 6),
      \* teaches of one entity, evidence naming nobody
      ExtractedRelationship("teaches", Name_b, Name_b, EmptyDict, Ev_x_y, 10),
      \* instance_of: the target must be a Concept
      ExtractedRelationship("instance_of", Name_b, Name_a, EmptyDict, Ev_a_b, 9),
      \* mentors: allowed entity types and an enum property
      ExtractedRelationship("mentors", Name_a, Name_b, ModeFormal, Ev_a_b, 9),
      ExtractedRelationship("mentors", Name_b, Name_b, EmptyDict, Ev_a_b, 9),
      \* a machine name the registry does not hold
      ExtractedRelationship("xyz", Name_a, Name_b, EmptyDict, Ev_a_b, 9) }

\* the narrower oracle of the sessions that also edit the registry
RegistryEntityCandidates ==
    { ExtractedEntity(Name_a, "Concept", "d1", <<"k1">>, 9),
      ExtractedEntity(Name_b, "Person", "d3", <<"k1">>, 8) }

\* and their registry: two of the seeded defaults
RegistryTypes == << SeedType("is_a", "hierarchical"), SeedType("teaches", "social") >>

RegistryRelationshipCandidates ==
    { ExtractedRelationship("is_a", Name_a, Name_b, EmptyDict, Ev_a_is_a_b, 9),
      ExtractedRelationship("teaches", Name_b, Name_b, EmptyDict, Ev_x_y, 10) }

\* what the synthesis oracle may answer on a merge
SynthesisAnswers ==
    { [new_description |-> "merged", new_keywords |-> <<"k1", "k2">>] }

(***************************************************************************)
(* State                                                                   *)
(***************************************************************************)
VARIABLES
    db,                   \* committed tables of knowledge_base.db
    conn,                 \* tables as seen inside the open transaction
    ss,                   \* st.session_state, the in-memory mirror
    pc,                   \* position inside save_knowledge_flow
    extraction,           \* what extract_data returned to the current run
    new_knowledge,        \* id of the KnowledgeEntry of the current run
    final_entity_ids,
    entity_name_map,
    entity_conf_map,
    new_entities_buffer,
    new_relations_buffer,
    new_evidence_buffer,
    rel,                  \* the candidate relationship of the current iteration
    uuid,                 \* ids handed out so far, per kind of record
    outcome,              \* how the last operation ended
    probe,                \* the input of a function examined on its own
    verdict               \* what that function returned on the probe

vars == << db, conn, ss, pc, extraction, new_knowledge, final_entity_ids, entity_name_map,
           entity_conf_map, new_entities_buffer, new_relations_buffer,
           new_evidence_buffer, rel, uuid, outcome, probe, verdict >>

storeVars == << db, conn, ss, pc, extraction, new_knowledge, final_entity_ids, entity_name_map,
                entity_conf_map, new_entities_buffer, new_relations_buffer,
                new_evidence_buffer, rel, uuid, outcome >>

locals == << extraction, new_knowledge, final_entity_ids, entity_name_map, entity_conf_map,
             new_entities_buffer, new_relations_buffer, new_evidence_buffer, rel >>

NoRel == [machine_name |-> "-"]
NoId == 0

\* how an operation ended, and on which entities it worked
Outcome(op, master_id, duplicate_id) ==
    [op |-> op, master |-> master_id, duplicate |-> duplicate_id]
Ended(op) == Outcome(op, NoId, NoId)
\* how a merge ended, and whether the synthesis oracle answered; a merge that
\* raised reports no entity
MergeOutcome(op, master_id, duplicate_id, oracle_ok) ==
    [op |-> op, master |-> master_id, duplicate |-> duplicate_id,
     synthesis |-> IF oracle_ok THEN "answered" ELSE "failed"]

NoProbe == [rel |-> NoRel]
NoVerdict == [stage |-> "none"]

\* a dict with one more item
Put(f, k, v) == [x \in (DOMAIN f) \cup {k} |-> IF x = k THEN v ELSE f[x]]
\* a dict without a key
Del(f, k) == [x \in (DOMAIN f) \ {k} |-> f[x]]
\* dict.update
Update(f, g) == [x \in (DOMAIN f) \cup (DOMAIN g) |-> IF x \in DOMAIN g THEN g[x] ELSE f[x]]

Range(seq) == {seq[i] : i \in 1..Len(seq)}

\* load_data_from_db, the relationship types: a dict in row order
\* the ids of the rows of a relationship_types table, or of the mirrored types
TypeIds(types) == {types[i].id : i \in 1..Len(types)}

\* an empty knowledge base holding the given registry, loaded into the mirror
InitStore(types) ==
    /\ db = [entities |-> EmptyDict, knowledge |-> EmptyDict, evidence |-> EmptyDict,
             relationship_types |-> types,
             relation_assertions |-> EmptyDict]
    /\ conn = db
    /\ ss = [entities |-> EmptyDict, knowledges |-> <<>>,
             relationship_types |-> types, evidence |-> EmptyDict,
             relation_assertions |-> <<>>]
    /\ pc = "idle"
    /\ extraction = "none"
    /\ new_knowledge = NoId
    /\ final_entity_ids = <<>>
    /\ entity_name_map = EmptyDict
    /\ entity_conf_map = EmptyDict
    /\ new_entities_buffer = EmptyDict
    /\ new_relations_buffer = <<>>
    /\ new_evidence_buffer = EmptyDict
    /\ rel = NoRel
    /\ uuid = [entity |-> 0, knowledge |-> 0, relation |-> 0, type |-> 0]
    /\ outcome = Ended("none")

Init ==
    /\ InitStore(InitialTypes)
    /\ probe = NoProbe
    /\ verdict = NoVerdict

(***************************************************************************)
(* save_knowledge_flow (storage/sqlite_adapter.py)                         *)
(*                                                                         *)
(* The oracle's lists are consumed one element per loop iteration; each    *)
(* iteration is one step and draws the element it processes.  Every        *)
(* c.execute and the commit may raise, which sends control to the except   *)
(* clause (pc = "rollback").                                               *)
(***************************************************************************)
ResetLocals ==
    /\ extraction' = "none"
    /\ new_knowledge' = NoId
    /\ final_entity_ids' = <<>>
    /\ entity_name_map' = EmptyDict
    /\ entity_conf_map' = EmptyDict
    /\ new_entities_buffer' = EmptyDict
    /\ new_relations_buffer' = <<>>
    /\ new_evidence_buffer' = EmptyDict
    /\ rel' = NoRel

\* extract_data, step 1: the entity call raised or its answer did not parse;
\* extract_data returns no entities and save_knowledge_flow returns at once
EntityExtractionFailed ==
    /\ pc = "idle"
    /\ outcome' = Ended("extraction_failed")
    /\ UNCHANGED << db, conn, ss, pc, locals, uuid >>

\* extract_data returned no entities: the function returns before connecting
NoEntities ==
    /\ pc = "idle"
    /\ outcome' = Ended("no_entities")
    /\ UNCHANGED << db, conn, ss, pc, locals, uuid >>

\* extract_data returned entities, with the relationships of step 2 or, when
\* the relationship call raised or its answer did not parse, with none; then
\* sqlite3.connect, the buffers, new_knowledge = KnowledgeEntry(content_raw=text)
BeginFlow ==
    /\ pc = "idle"
    /\ uuid.entity < MaxEntities
    /\ pc' = "entities"
    /\ extraction' \in {"complete", "relations_failed"}
    /\ conn' = db
    /\ uuid' = [uuid EXCEPT !.knowledge = @ + 1]
    /\ new_knowledge' = uuid.knowledge + 1
    /\ outcome' = Ended("running")
    /\ UNCHANGED << db, ss, final_entity_ids, entity_name_map, entity_conf_map,
                    new_entities_buffer, new_relations_buffer, new_evidence_buffer,
                    rel >>

EntityRow(new_id, raw) ==
    [id |-> new_id, name |-> raw.name, type |-> raw.type,
     description |-> raw.description, keywords |-> raw.keywords,
     source_knowledge_ids |-> {new_knowledge}, confidence |-> raw.confidence]

EntityNode(new_id, raw) ==
    [id |-> new_id, name |-> raw.name, type |-> raw.type,
     description |-> raw.description, keywords |-> raw.keywords,
     source_knowledge_ids |-> {new_knowledge}]

ProcessEntityIntoExisting(raw, ok) ==
    /\ pc = "entities"
    /\ uuid.entity < MaxEntities
    /\ LET norm_name == normalize_entity_name(raw.name)
           same == {id \in DOMAIN conn.entities :
                       normalize_entity_name(conn.entities[id].name) = norm_name}
           new_id == IF same = {} THEN uuid.entity + 1 ELSE CHOOSE id \in same : TRUE
       IN  /\ entity_conf_map' = Put(entity_conf_map, norm_name, raw.confidence)
           /\ IF ok
              THEN /\ uuid' = [uuid EXCEPT !.entity = @ + 1]
                   /\ conn' = [conn EXCEPT !.entities = Put(@, new_id, EntityRow(new_id, raw))]
                   /\ final_entity_ids' = Append(final_entity_ids, new_id)
                   /\ new_entities_buffer' = Put(new_entities_buffer, new_id, EntityNode(new_id, raw))
                   /\ entity_name_map' = Put(entity_name_map, norm_name, new_id)
                   /\ pc' = "entities"
              ELSE /\ pc' = "rollback"
                   /\ UNCHANGED << conn, uuid, final_entity_ids, new_entities_buffer,
                                   entity_name_map >>
    /\ UNCHANGED << db, ss, extraction, new_knowledge, new_relations_buffer,
                    new_evidence_buffer, rel, outcome >>

\* one iteration of "for idx, raw in enumerate(result.entities)"
ProcessEntity(raw, ok) ==
    /\ pc = "entities"
    /\ uuid.entity < MaxEntities
    /\ LET norm_name == normalize_entity_name(raw.name)
           new_id == uuid.entity + 1
       IN  /\ entity_conf_map' = Put(entity_conf_map, norm_name, raw.confidence)
           /\ IF ok
              THEN /\ uuid' = [uuid EXCEPT !.entity = new_id]
                   /\ conn' = [conn EXCEPT !.entities = Put(@, new_id, EntityRow(new_id, raw))]
                   /\ final_entity_ids' = Append(final_entity_ids, new_id)
                   /\ new_entities_buffer' = Put(new_entities_buffer, new_id, EntityNode(new_id, raw))
                   /\ entity_name_map' = Put(entity_name_map, norm_name, new_id)
                   /\ pc' = "entities"
              ELSE /\ pc' = "rollback"
                   /\ UNCHANGED << conn, uuid, final_entity_ids, new_entities_buffer,
                                   entity_name_map >>
    /\ UNCHANGED << db, ss, extraction, new_knowledge, new_relations_buffer,
                    new_evidence_buffer, rel, outcome >>

\* result.entities is exhausted (it was not empty)
EndEntities ==
    /\ pc = "entities"
    /\ final_entity_ids # <<>>
    /\ pc' = "relationships"
    /\ UNCHANGED << db, conn, ss, locals, uuid, outcome >>

\* "for rtid, rt in st.session_state.relationship_types.items()": the first
\* type of that machine name in dict order, 0 when there is none
FindType(types, machine_name) ==
    IF \E i \in 1..Len(types) : types[i].machine_name = machine_name
    THEN CHOOSE i \in 1..Len(types) :
            /\ types[i].machine_name = machine_name
            /\ \A j \in 1..(i - 1) : types[j].machine_name # machine_name
    ELSE 0

\* dict.get(key, default)
Get(f, k, default) == IF k \in DOMAIN f THEN f[k] ELSE default

\* the ids of the mirrored entities of a normalized name
MirroredByName(norm) ==
    { id \in DOMAIN ss.entities : normalize_entity_name(ss.entities[id].name) = norm }

resolve_entity_or_mirrored(name) ==
    LET norm == normalize_entity_name(name)
    IN  IF norm \in DOMAIN entity_name_map THEN entity_name_map[norm]
        ELSE IF MirroredByName(norm) # {} THEN CHOOSE id \in MirroredByName(norm) : TRUE
        ELSE NoId

\* entity_name_map.get(normalize_entity_name(name)): None when the run has
\* created no entity of that normalized name
resolve_entity(name) == Get(entity_name_map, normalize_entity_name(name), NoId)

\* steps 1 and 2 of the loop body: the type and both endpoints resolve
Resolves(r) ==
    /\ FindType(ss.relationship_types, r.machine_name) # 0
    /\ resolve_entity(r.source_entity) # NoId
    /\ resolve_entity(r.target_entity) # NoId

ResolvedType(r) == ss.relationship_types[FindType(ss.relationship_types, r.machine_name)]
ResolvedSourceId(r) == resolve_entity(r.source_entity)
ResolvedTargetId(r) == resolve_entity(r.target_entity)

\* new_entities_buffer.get(id) or st.session_state.entities.get(id)
LookupEntity(id) ==
    IF id \in DOMAIN new_entities_buffer THEN new_entities_buffer[id] ELSE ss.entities[id]

\* step 3 of the loop body
Admitted(r) ==
    /\ Resolves(r)
    /\ full_relation_validation(r, ResolvedType(r),
                                LookupEntity(ResolvedSourceId(r)),
                                LookupEntity(ResolvedTargetId(r)))

system_conf_without_entities(rel_conf, src_conf, tgt_conf, ontology_conf) ==
    Min2(rel_conf, ontology_conf)

\* system_conf = min(rel.confidence, src_conf, tgt_conf, ontology_conf)
system_conf_of(rel_conf, src_conf, tgt_conf, ontology_conf) ==
    Min2(Min2(rel_conf, src_conf), Min2(tgt_conf, ontology_conf))

\* steps 4 and 5: the RelationAssertion built for an admitted candidate
NewAssertion(r, usage_id, ev_id) ==
    LET src_norm == normalize_entity_name(r.source_entity)
        tgt_norm == normalize_entity_name(r.target_entity)
        src_id == ResolvedSourceId(r)
        tgt_id == ResolvedTargetId(r)
        src_conf == Get(entity_conf_map, src_norm, 10)
        tgt_conf == Get(entity_conf_map, tgt_norm, 10)
        ontology_conf == calculate_ontology_confidence(r, ResolvedType(r),
                             LookupEntity(src_id), LookupEntity(tgt_id))
    IN  [id |-> usage_id, knowledge_id |-> new_knowledge,
         relationship_type_id |-> ResolvedType(r).id,
         source_entity_id |-> src_id, target_entity_id |-> tgt_id,
         usage_context |-> r.usage_context,
         semantic_properties |-> r.semantic_properties,
         evidence_ids |-> <<ev_id>>,
         extraction_confidence |-> r.confidence,
         ontology_confidence |-> ontology_conf,
         system_confidence |-> system_conf_of(r.confidence, src_conf, tgt_conf, ontology_conf),
         status |-> "extracted"]

EvidenceRow(ev_id, r) ==
    [id |-> ev_id, source_knowledge_id |-> new_knowledge, text_span |-> r.evidence_span]

\* the c.execute of an admitted candidate that raises, if any
FailPoints == {"none", "evidence", "assertion"}

ProcessRelationshipAbortOnSkip(r) ==
    /\ pc = "relationships"
    /\ extraction = "complete"
    /\ uuid.relation < MaxAssertions \/ ~Admitted(r)
    /\ rel' = r
    /\ IF ~Admitted(r)
       THEN /\ pc' = "rollback"
            /\ UNCHANGED << conn, new_relations_buffer, new_evidence_buffer, uuid >>
       ELSE LET n == uuid.relation + 1
                ra == NewAssertion(r, n, n)
            IN  /\ pc' = "relationships"
                /\ uuid' = [uuid EXCEPT !.relation = n]
                /\ conn' = [conn EXCEPT
                              !.evidence = Put(@, n, EvidenceRow(n, r)),
                              !.relation_assertions = Put(@, n, ra)]
                /\ new_evidence_buffer' = Put(new_evidence_buffer, n, r.evidence_span)
                /\ new_relations_buffer' = Append(new_relations_buffer, ra)
    /\ UNCHANGED << db, ss, extraction, new_knowledge, final_entity_ids,
                    entity_name_map, entity_conf_map, new_entities_buffer, outcome >>

\* one iteration of "for rel in result.relationships"
ProcessRelationship(r) ==
    /\ pc = "relationships"
    /\ extraction = "complete"
    /\ uuid.relation < MaxAssertions \/ ~Admitted(r)
    /\ rel' = r
    /\ IF ~Admitted(r)
       THEN UNCHANGED << conn, new_relations_buffer, new_evidence_buffer, uuid, pc >>
       ELSE LET n == uuid.relation + 1
                ra == NewAssertion(r, n, n)
            IN  \E fail \in FailPoints :
                CASE fail = "evidence" ->
                          /\ pc' = "rollback"
                          /\ UNCHANGED << conn, new_relations_buffer, new_evidence_buffer, uuid >>
                     [] fail = "assertion" ->
                          /\ pc' = "rollback"
                          /\ conn' = [conn EXCEPT !.evidence = Put(@, n, EvidenceRow(n, r))]
                          /\ new_evidence_buffer' = Put(new_evidence_buffer, n, r.evidence_span)
                          /\ UNCHANGED << new_relations_buffer, uuid >>
                     [] fail = "none" ->
                          /\ pc' = "relationships"
                          /\ uuid' = [uuid EXCEPT !.relation = n]
                          /\ conn' = [conn EXCEPT
                                        !.evidence = Put(@, n, EvidenceRow(n, r)),
                                        !.relation_assertions = Put(@, n, ra)]
                          /\ new_evidence_buffer' = Put(new_evidence_buffer, n, r.evidence_span)
                          /\ new_relations_buffer' = Append(new_relations_buffer, ra)
    /\ UNCHANGED << db, ss, extraction, new_knowledge, final_entity_ids,
                    entity_name_map, entity_conf_map, new_entities_buffer, outcome >>

\* result.relationships is exhausted
EndRelationships ==
    /\ pc = "relationships"
    /\ pc' = "save_knowledge"
    /\ rel' = NoRel
    /\ UNCHANGED << db, conn, ss, extraction, new_knowledge, final_entity_ids,
                    entity_name_map, entity_conf_map, new_entities_buffer,
                    new_relations_buffer, new_evidence_buffer, uuid, outcome >>

\* the row of the knowledge table: related_entity_ids is json.dumps(final_entity_ids)
KnowledgeRow == [id |-> new_knowledge, related_entity_ids |-> final_entity_ids]

\* the object built by KnowledgeEntry(content_raw=text): related_entity_ids
\* takes its default, the empty list, and no statement assigns it afterwards
KnowledgeEntry == [id |-> new_knowledge, related_entity_ids |-> <<>>]

\* "4. Save Knowledge": the INSERT INTO knowledge
SaveKnowledge(ok) ==
    /\ pc = "save_knowledge"
    /\ IF ok
       THEN /\ conn' = [conn EXCEPT !.knowledge = Put(@, new_knowledge, KnowledgeRow)]
            /\ pc' = "commit"
       ELSE /\ pc' = "rollback"
            /\ UNCHANGED conn
    /\ UNCHANGED << db, ss, locals, uuid, outcome >>

CommitUnchecked(ok) ==
    /\ pc = "commit"
    /\ db' = IF ok THEN conn ELSE db
    /\ pc' = "session_entities"
    /\ UNCHANGED << conn, ss, locals, uuid, outcome >>

\* conn.commit()
Commit(ok) ==
    /\ pc = "commit"
    /\ IF ok
       THEN /\ db' = conn
            /\ pc' = "session_entities"
       ELSE /\ pc' = "rollback"
            /\ UNCHANGED db
    /\ UNCHANGED << conn, ss, locals, uuid, outcome >>

\* "ATOMIC SESSION UPDATE": st.session_state.entities.update(new_entities_buffer)
SessionEntities ==
    /\ pc = "session_entities"
    /\ ss' = [ss EXCEPT !.entities = Update(@, new_entities_buffer)]
    /\ pc' = "session_relations"
    /\ UNCHANGED << db, conn, locals, uuid, outcome >>

\* st.session_state.relation_assertions.extend(new_relations_buffer)
SessionRelations ==
    /\ pc = "session_relations"
    /\ ss' = [ss EXCEPT !.relation_assertions = @ \o new_relations_buffer]
    /\ pc' = "session_knowledges"
    /\ UNCHANGED << db, conn, locals, uuid, outcome >>

\* st.session_state.knowledges.append(new_knowledge)
SessionKnowledges ==
    /\ pc = "session_knowledges"
    /\ ss' = [ss EXCEPT !.knowledges = Append(@, KnowledgeEntry)]
    /\ pc' = "session_evidence"
    /\ UNCHANGED << db, conn, locals, uuid, outcome >>

\* st.session_state.evidence.update(new_evidence_buffer), then finally:
\* conn.close()
SessionEvidence ==
    /\ pc = "session_evidence"
    /\ ss' = [ss EXCEPT !.evidence = Update(@, new_evidence_buffer)]
    /\ pc' = "idle"
    /\ outcome' = Ended("saved")
    /\ ResetLocals
    /\ UNCHANGED << db, conn, uuid >>

RollbackKeepsWrites ==
    /\ pc = "rollback"
    /\ db' = conn
    /\ pc' = "idle"
    /\ outcome' = Ended("failed")
    /\ uuid' = [uuid EXCEPT !.entity = @ - Len(final_entity_ids),
                             !.knowledge = @ - 1,
                             !.relation = @ - Len(new_relations_buffer)]
    /\ ResetLocals
    /\ UNCHANGED << conn, ss >>

\* except: conn.rollback(), then finally: conn.close().  The ids minted by
\* the failed run were never visible, so the counters are taken back.
Rollback ==
    /\ pc = "rollback"
    /\ conn' = db
    /\ pc' = "idle"
    /\ outcome' = Ended("failed")
    /\ uuid' = [uuid EXCEPT !.entity = @ - Len(final_entity_ids),
                             !.knowledge = @ - 1,
                             !.relation = @ - Len(new_relations_buffer)]
    /\ ResetLocals
    /\ UNCHANGED << db, ss >>

(***************************************************************************)
(* perform_entity_merge                                                    *)
(***************************************************************************)
\* what a call that raised hands to its caller
Raised == [raised |-> TRUE]

synthesize_entity_info_raising(current_entity, new_info, answer, oracle_ok) ==
    IF oracle_ok THEN answer ELSE Raised

\* synthesize_entity_info: the oracle's answer, or on any exception the
\* current entity's own description and keywords
synthesize_entity_info(current_entity, new_info, answer, oracle_ok) ==
    IF oracle_ok
    THEN answer
    ELSE [new_description |-> current_entity.description,
          new_keywords |-> current_entity.keywords]

\* UPDATE relation_assertions SET source_entity_id = master WHERE ... = duplicate
\* and the same for target_entity_id
RepointSourceOnly(r, master_id, duplicate_id) ==
    [r EXCEPT !.source_entity_id = IF @ = duplicate_id THEN master_id ELSE @]

Repoint(r, master_id, duplicate_id) ==
    [r EXCEPT !.source_entity_id = IF @ = duplicate_id THEN master_id ELSE @,
              !.target_entity_id = IF @ = duplicate_id THEN master_id ELSE @]

MergeInDbUnlinking(tables, master_id, duplicate_id, syn, new_src_ids) ==
    LET repointed == [id \in DOMAIN tables.relation_assertions |->
                         Repoint(tables.relation_assertions[id], master_id, duplicate_id)]
        updated == [id \in DOMAIN tables.entities |->
                       IF id = master_id
                       THEN [tables.entities[id] EXCEPT
                               !.description = syn.new_description,
                               !.keywords = syn.new_keywords,
                               !.source_knowledge_ids = new_src_ids]
                       ELSE tables.entities[id]]
        unlinked == [k \in DOMAIN tables.knowledge |->
                       [tables.knowledge[k] EXCEPT
                          !.related_entity_ids =
                              SelectSeq(@, LAMBDA e : e # duplicate_id)]]
    IN  [tables EXCEPT !.relation_assertions = repointed,
                       !.entities = Del(updated, duplicate_id),
                       !.knowledge = unlinked]

\* "2. Database Updates": the four statements, in order
MergeInDb(tables, master_id, duplicate_id, syn, new_src_ids) ==
    LET repointed == [id \in DOMAIN tables.relation_assertions |->
                         Repoint(tables.relation_assertions[id], master_id, duplicate_id)]
        updated == [id \in DOMAIN tables.entities |->
                       IF id = master_id
                       THEN [tables.entities[id] EXCEPT
                               !.description = syn.new_description,
                               !.keywords = syn.new_keywords,
                               !.source_knowledge_ids = new_src_ids]
                       ELSE tables.entities[id]]
    IN  [tables EXCEPT !.relation_assertions = repointed,
                       !.entities = Del(updated, duplicate_id)]

MergeInSessionKeepingDuplicate(state, master_id, duplicate_id, syn, new_src_ids) ==
    LET e1 == [state.entities[master_id] EXCEPT
                 !.description = syn.new_description,
                 !.keywords = syn.new_keywords,
                 !.source_knowledge_ids = new_src_ids]
    IN  [state EXCEPT
           !.entities = Put(@, master_id, e1),
           !.relation_assertions =
               [i \in 1..Len(@) |-> Repoint(@[i], master_id, duplicate_id)]]

\* "3. Session Update"
MergeInSession(state, master_id, duplicate_id, syn, new_src_ids) ==
    LET e1 == [state.entities[master_id] EXCEPT
                 !.description = syn.new_description,
                 !.keywords = syn.new_keywords,
                 !.source_knowledge_ids = new_src_ids]
    IN  [state EXCEPT
           !.entities = Del(Put(@, master_id, e1), duplicate_id),
           !.relation_assertions =
               [i \in 1..Len(@) |-> Repoint(@[i], master_id, duplicate_id)]]

perform_entity_merge_session_first(master_id, duplicate_id, answer, oracle_ok, db_ok) ==
    /\ pc = "idle"
    /\ master_id \in DOMAIN ss.entities
    /\ duplicate_id \in DOMAIN ss.entities
    /\ LET e1 == ss.entities[master_id]
           e2 == ss.entities[duplicate_id]
           syn == synthesize_entity_info(e1, e2, answer, oracle_ok)
           new_src_ids == e1.source_knowledge_ids \cup e2.source_knowledge_ids
       IN  /\ ss' = MergeInSession(ss, master_id, duplicate_id, syn, new_src_ids)
           /\ IF db_ok
              THEN /\ db' = MergeInDb(db, master_id, duplicate_id, syn, new_src_ids)
                   /\ conn' = db'
                   /\ outcome' = MergeOutcome("merged", master_id, duplicate_id, oracle_ok)
              ELSE /\ outcome' = MergeOutcome("merge_failed", NoId, NoId, oracle_ok)
                   /\ UNCHANGED << db, conn >>
    /\ UNCHANGED << pc, locals, uuid >>

\* the UI offers a merge for each pair of distinct mirrored entities; an
\* exception of synthesize_entity_info would raise out of the function before
\* step 2; a failing statement or commit raises out of it before step 3, and
\* the uncommitted transaction is discarded with the connection
perform_entity_merge(master_id, duplicate_id, answer, oracle_ok, db_ok) ==
    /\ pc = "idle"
    /\ master_id \in DOMAIN ss.entities
    /\ duplicate_id \in DOMAIN ss.entities
    /\ LET e1 == ss.entities[master_id]
           e2 == ss.entities[duplicate_id]
           syn == synthesize_entity_info(e1, e2, answer, oracle_ok)
           new_src_ids == e1.source_knowledge_ids \cup e2.source_knowledge_ids
       IN  IF syn = Raised
           THEN /\ outcome' = MergeOutcome("synthesis_raised", master_id, duplicate_id,
                                           oracle_ok)
                /\ UNCHANGED << db, conn, ss >>
           ELSE IF db_ok
           THEN /\ db' = MergeInDb(db, master_id, duplicate_id, syn, new_src_ids)
                /\ conn' = db'
                /\ ss' = MergeInSession(ss, master_id, duplicate_id, syn, new_src_ids)
                /\ outcome' = MergeOutcome("merged", master_id, duplicate_id, oracle_ok)
           ELSE /\ outcome' = MergeOutcome("merge_failed", NoId, NoId, oracle_ok)
                /\ UNCHANGED << db, conn, ss >>
    /\ UNCHANGED << pc, locals, uuid >>

(***************************************************************************)
(* delete_relationship_type                                                *)
(***************************************************************************)
\* the mirror's type entry goes first; a failing statement or commit raises
\* out of the function with the database unchanged and the mirrored
\* assertions not yet filtered
delete_relationship_type(type_id, db_ok) ==
    /\ pc = "idle"
    /\ \E i \in 1..Len(ss.relationship_types) : ss.relationship_types[i].id = type_id
    /\ LET types == SelectSeq(ss.relationship_types, LAMBDA t : t.id # type_id)
       IN  IF db_ok
           THEN /\ db' = [db EXCEPT
                            !.relationship_types = SelectSeq(@, LAMBDA t : t.id # type_id),
                            !.relation_assertions =
                                [id \in {x \in DOMAIN @ : @[x].relationship_type_id # type_id}
                                    |-> @[id]]]
                /\ conn' = db'
                /\ ss' = [ss EXCEPT
                            !.relationship_types = types,
                            !.relation_assertions =
                                SelectSeq(@, LAMBDA u : u.relationship_type_id # type_id)]
                /\ outcome' = Ended("deleted")
           ELSE /\ ss' = [ss EXCEPT !.relationship_types = types]
                /\ outcome' = Ended("delete_failed")
                /\ UNCHANGED << db, conn >>
    /\ UNCHANGED << pc, locals, uuid >>

(***************************************************************************)
(* load_data_from_db and the ontology import (render_ontology_import)      *)
(***************************************************************************)
\* the rows of a table whose ids were handed out in increasing order, in
\* the order a "SELECT *" returns them
RECURSIVE RowsInOrder(_)
RowsInOrder(table) ==
    IF DOMAIN table = {} THEN <<>>
    ELSE LET first == CHOOSE k \in DOMAIN table : \A j \in DOMAIN table : k <= j
         IN  << table[first] >> \o
             RowsInOrder([id \in (DOMAIN table) \ {first} |-> table[id]])

\* load_data_from_db: the mirror rebuilt from the tables.  The types keep
\* the order of their rows, which is the order of the dict the resolution
\* of ingestion walks through.
load_data_from_db(tables) ==
    [evidence |-> [id \in DOMAIN tables.evidence |-> tables.evidence[id].text_span],
     relationship_types |-> tables.relationship_types,
     entities |->
         [id \in DOMAIN tables.entities |->
             [id |-> id, name |-> tables.entities[id].name,
              type |-> tables.entities[id].type,
              description |-> tables.entities[id].description,
              keywords |-> tables.entities[id].keywords,
              source_knowledge_ids |-> tables.entities[id].source_knowledge_ids]],
     knowledges |-> RowsInOrder(tables.knowledge),
     relation_assertions |-> RowsInOrder(tables.relation_assertions)]

MaxImports == 1

\* one entry of the "relation_types" list of an uploaded file
ImportedType(name, cat, version, deprecated) ==
    [machine_name |-> name, description |-> "t0", category |-> cat,
     deterministic |-> FALSE,
     allowed_entity_types |-> EmptyDict, properties_schema |-> EmptyDict,
     version |-> version, deprecated |-> deprecated]

\* a new version of is_a, and teaches in its current version marked deprecated
RegistryImportCandidates ==
    { ImportedType("is_a", "hierarchical", "2.0", FALSE),
      ImportedType("teaches", "social", "1.0", TRUE) }

\* the same, and is_a in the version the registry starts with
ImportCandidates ==
    RegistryImportCandidates \cup { ImportedType("is_a", "hierarchical", "1.0", FALSE) }

\* the uploaded files: one entry, or two different entries in either order
FilesOf(candidates) ==
    { << rt >> : rt \in candidates } \cup
    { file \in candidates \X candidates : file[1] # file[2] }

RegistryImportFiles == FilesOf(RegistryImportCandidates)
ImportFiles == FilesOf(ImportCandidates)

\* str(uuid.uuid4()) of the n-th row the import inserts
ImportedTypeId(n) == "uuid-" \o ToString(n)

\* the rows of that machine name, and the first of them with that version
ExistingRows(rows, rt) == {i \in DOMAIN rows : rows[i].machine_name = rt.machine_name}
ExistingMatch(rows, rt) ==
    LET same == {i \in ExistingRows(rows, rt) : rows[i].version = rt.version}
    IN  IF same = {} THEN 0 ELSE CHOOSE i \in same : \A j \in same : i <= j

\* the body of "for rt in types": UPDATE the row of that name and version,
\* or else deprecate every row of that name and INSERT a new one
import_type(rows, rt, new_id) ==
    IF ExistingMatch(rows, rt) # 0
    THEN [rows EXCEPT ![ExistingMatch(rows, rt)] =
            [@ EXCEPT !.description = rt.description,
                      !.category = rt.category,
                      !.deterministic = rt.deterministic,
                      !.allowed_entity_types = rt.allowed_entity_types,
                      !.properties_schema = rt.properties_schema,
                      !.deprecated = rt.deprecated]]
    ELSE Append([i \in DOMAIN rows |->
                    IF i \in ExistingRows(rows, rt)
                    THEN [rows[i] EXCEPT !.deprecated = TRUE]
                    ELSE rows[i]],
                [id |-> new_id, machine_name |-> rt.machine_name,
                 description |-> rt.description,
                 category |-> rt.category, deterministic |-> rt.deterministic,
                 allowed_entity_types |-> rt.allowed_entity_types,
                 properties_schema |-> rt.properties_schema,
                 version |-> rt.version, deprecated |-> rt.deprecated])

\* the loop over the entries of the file; minted counts the ids handed out
RECURSIVE import_types(_, _, _)
import_types(rows, types, minted) ==
    IF types = <<>> THEN [rows |-> rows, minted |-> minted]
    ELSE LET rt == Head(types)
         IN  import_types(import_type(rows, rt, ImportedTypeId(minted + 1)),
                          Tail(types),
                          IF ExistingMatch(rows, rt) # 0 THEN minted ELSE minted + 1)

\* "Process Import": the loop, conn.commit() and load_data_from_db(); an
\* exception before the commit leaves store and mirror as they were
render_ontology_import(file, db_ok) ==
    /\ pc = "idle"
    /\ LET done == import_types(db.relationship_types, file, uuid.type)
       IN  /\ done.minted <= MaxImports
           /\ IF db_ok
              THEN /\ db' = [db EXCEPT !.relationship_types = done.rows]
                   /\ conn' = db'
                   /\ ss' = load_data_from_db(db')
                   /\ uuid' = [uuid EXCEPT !.type = done.minted]
                   /\ outcome' = Ended("imported")
              ELSE /\ outcome' = Ended("import_failed")
                   /\ UNCHANGED << db, conn, ss, uuid >>
    /\ UNCHANGED << pc, locals >>

(***************************************************************************)
(* create_relationship_type                                                *)
(***************************************************************************)
\* the machine names and descriptions typed into the registry view
CreatedMachineNames == {"is_a", "performs"}
TypeDescriptions == {"t0", "t1"}

\* the row create_relationship_type inserts, as load_data_from_db reads it,
\* which is also the RelationshipType it puts in the mirror
CreatedType(new_id, machine_name, description) ==
    [id |-> new_id, machine_name |-> machine_name, description |-> description,
     category |-> "General",
     deterministic |-> FALSE, allowed_entity_types |-> EmptyDict,
     properties_schema |-> EmptyDict, version |-> "1.0", deprecated |-> FALSE]

\* refused when a mirrored type, deprecated or not, has the machine name; the
\* mirror gets the type after the commit, and a failing INSERT or commit
\* raises out of the function before that
create_relationship_type(machine_name, description, db_ok) ==
    /\ pc = "idle"
    /\ IF \E i \in 1..Len(ss.relationship_types) :
              ss.relationship_types[i].machine_name = machine_name
       THEN /\ outcome' = Ended("create_refused")
            /\ UNCHANGED << db, conn, ss, uuid >>
       ELSE /\ uuid.type < MaxImports
            /\ LET rt == CreatedType(ImportedTypeId(uuid.type + 1), machine_name,
                                     description)
               IN  IF db_ok
                   THEN /\ db' = [db EXCEPT !.relationship_types = Append(@, rt)]
                        /\ conn' = db'
                        /\ ss' = [ss EXCEPT !.relationship_types = Append(@, rt)]
                        /\ uuid' = [uuid EXCEPT !.type = @ + 1]
                        /\ outcome' = Ended("created")
                   ELSE /\ outcome' = Ended("create_failed")
                        /\ UNCHANGED << db, conn, ss, uuid >>
    /\ UNCHANGED << pc, locals >>

(***************************************************************************)
(* update_relationship_type                                                *)
(***************************************************************************)
\* the rows or mirrored types with the description of the type id replaced
WithDescription(types, id, description) ==
    [i \in 1..Len(types) |->
        IF types[i].id = id THEN [types[i] EXCEPT !.description = description]
        ELSE types[i]]

\* the mirrored object is assigned first; a failing UPDATE or commit raises
\* out of the function with the database unchanged
update_relationship_type(id, description, db_ok) ==
    /\ pc = "idle"
    /\ id \in TypeIds(ss.relationship_types)
    /\ ss' = [ss EXCEPT !.relationship_types = WithDescription(@, id, description)]
    /\ IF db_ok
       THEN /\ db' = [db EXCEPT !.relationship_types = WithDescription(@, id, description)]
            /\ conn' = db'
            /\ outcome' = Ended("updated")
       ELSE /\ outcome' = Ended("update_failed")
            /\ UNCHANGED << db, conn >>
    /\ UNCHANGED << pc, locals, uuid >>

(***************************************************************************)
(* The session: one user action at a time                                  *)
(***************************************************************************)
\* save_knowledge_flow, with the oracle answering from the given candidates
IngestStep(entities, relationships) ==
    \/ EntityExtractionFailed
    \/ NoEntities
    \/ BeginFlow
    \/ \E raw \in entities, ok \in BOOLEAN : ProcessEntity(raw, ok)
    \/ EndEntities
    \/ \E r \in relationships : ProcessRelationship(r)
    \/ EndRelationships
    \/ \E ok \in BOOLEAN : SaveKnowledge(ok)
    \/ \E ok \in BOOLEAN : Commit(ok)
    \/ SessionEntities
    \/ SessionRelations
    \/ SessionKnowledges
    \/ SessionEvidence
    \/ Rollback

\* render_entity_deduplication offers each pair of distinct mirrored entities
MergeStep ==
    \E m, d \in DOMAIN ss.entities, answer \in SynthesisAnswers,
       oracle_ok \in BOOLEAN, db_ok \in BOOLEAN :
       m # d /\ perform_entity_merge(m, d, answer, oracle_ok, db_ok)

\* the registry view offers Delete for each mirrored type
DeleteStep ==
    \E i \in 1..Len(ss.relationship_types), db_ok \in BOOLEAN :
       delete_relationship_type(ss.relationship_types[i].id, db_ok)

\* ingestion and deduplication
Next ==
    /\ \/ IngestStep(EntityCandidates, RelationshipCandidates)
       \/ MergeStep
    /\ UNCHANGED << probe, verdict >>

Spec == Init /\ [][Next]_vars

\* the import view with an uploaded file
ImportStep(files) ==
    \E file \in files, db_ok \in BOOLEAN : render_ontology_import(file, db_ok)

\* ingestion, deduplication and registry editing
NextRegistry ==
    /\ \/ IngestStep(RegistryEntityCandidates, RegistryRelationshipCandidates)
       \/ MergeStep
       \/ DeleteStep
       \/ ImportStep(RegistryImportFiles)
    /\ UNCHANGED << probe, verdict >>

InitRegistry ==
    /\ InitStore(RegistryTypes)
    /\ probe = NoProbe
    /\ verdict = NoVerdict

SpecRegistry == InitRegistry /\ [][NextRegistry]_vars

\* the registry view's form with a machine name and a description typed in
CreateStep ==
    \E machine_name \in CreatedMachineNames, description \in TypeDescriptions,
       db_ok \in BOOLEAN :
       create_relationship_type(machine_name, description, db_ok)

\* the registry view offers Save, with the text typed in, for each mirrored type
UpdateStep ==
    \E i \in 1..Len(ss.relationship_types), description \in TypeDescriptions,
       db_ok \in BOOLEAN :
       update_relationship_type(ss.relationship_types[i].id, description, db_ok)

\* the registry edited on its own, through the registry view and the import
NextOntology ==
    /\ \/ CreateStep
       \/ UpdateStep
       \/ DeleteStep
       \/ ImportStep(ImportFiles)
    /\ UNCHANGED << probe, verdict >>

SpecOntology == InitRegistry /\ [][NextOntology]_vars

\* perform_entity_merge called with any two ids of mirrored entities, the
\* same id twice included
MergeCallStep ==
    \E m, d \in DOMAIN ss.entities, answer \in SynthesisAnswers,
       oracle_ok \in BOOLEAN, db_ok \in BOOLEAN :
       perform_entity_merge(m, d, answer, oracle_ok, db_ok)

\* ingestion and calls of the merge
NextMergeCall ==
    /\ \/ IngestStep(RegistryEntityCandidates, RegistryRelationshipCandidates)
       \/ MergeCallStep
    /\ UNCHANGED << probe, verdict >>

SpecMergeCall == InitRegistry /\ [][NextMergeCall]_vars

(***************************************************************************)
(* The validation engine on its own: a candidate relationship with its     *)
(* resolved type and endpoints is scored, then put through the gate.       *)
(***************************************************************************)
Ev_B_kind_of_a_Q ==
    <<"B", " ", "i", "s", " ", "a", " ", "k", "i", "n", "d", " ", "o", "f", " ", "a", "?">>
Ev_Q_newline == <<"a", " ", "b", " ", "?", "\n">>
Ev_Is_a_b == <<"I", "s", " ", "a", " ", "b">>
Ev_should_a_b == <<"s", "h", "o", "u", "l", "d", " ", "a", " ", "b">>

ProbeEvidence ==
    { Ev_a_is_a_b, Ev_a_is_a_b_Q, Ev_B_kind_of_a_Q, Ev_Q_newline, Ev_Is_a_b,
      Ev_a_b, Ev_x_y, Ev_should_a_b }

ProbeMachineNames ==
    {"is_a", "teaches", "performs", "causes", "instance_of", "subclass_of"}

ProbeProperties ==
    { EmptyDict,
      [k \in {"probability"} |-> Num(5)],
      [k \in {"probability", "temporal_lag"} |-> Num(10)],
      [k \in {"probability"} |-> Num(15)],
      [k \in {"probability"} |-> Str("0.5")],
      ModeFormal }

ProbeRelationships(names) ==
    { [machine_name |-> m, source_entity |-> Name_a, target_entity |-> Name_b,
       semantic_properties |-> props, usage_context |-> ctx,
       evidence_span |-> ev, confidence |-> 9] :
         m \in names, props \in ProbeProperties,
         ctx \in {"definition", "hypothesis"}, ev \in ProbeEvidence }

\* type definitions as the ontology import may register them
ProbeTypes(m) ==
    { [id |-> m, machine_name |-> m, description |-> "t0", category |-> cat,
       deterministic |-> det,
       allowed_entity_types |-> IF open THEN EmptyDict ELSE MentorsType.allowed_entity_types,
       properties_schema |-> IF open THEN EmptyDict ELSE MentorsType.properties_schema,
       version |-> "1.0", deprecated |-> FALSE] :
         cat \in {"hierarchical", "causal", "temporal"}, det \in BOOLEAN,
         open \in BOOLEAN }

ProbeEntities(n) ==
    { [id |-> 1, name |-> n, type |-> ty, description |-> "d1", keywords |-> <<"k1">>,
       source_knowledge_ids |-> {1}] : ty \in {"Concept", "Person"} }

\* every candidate of the given machine names with every type definition of
\* its machine name and every pair of endpoint types
Probes(names) ==
    UNION { { [rel |-> r, rel_type |-> rt, src |-> s, tgt |-> t] :
                rt \in ProbeTypes(r.machine_name),
                s \in ProbeEntities(Name_a), t \in ProbeEntities(Name_b) } :
            r \in ProbeRelationships(names) }

InitValidation ==
    /\ InitStore(InitialTypes)
    /\ probe \in Probes(ProbeMachineNames)
    /\ verdict = NoVerdict

\* calculate_ontology_confidence on the probe
ScoreProbe ==
    /\ verdict.stage = "none"
    /\ verdict' = [stage |-> "scored",
                   run |-> ontology_confidence_run(probe.rel, probe.rel_type,
                                                   probe.src, probe.tgt)]
    /\ UNCHANGED << storeVars, probe >>

\* full_relation_validation on the probe
GateProbe ==
    /\ verdict.stage = "scored"
    /\ verdict' = [stage |-> "gated", run |-> verdict.run,
                   admitted |-> full_relation_validation(probe.rel, probe.rel_type,
                                                         probe.src, probe.tgt)]
    /\ UNCHANGED << storeVars, probe >>

NextValidation == ScoreProbe \/ GateProbe

SpecValidation == InitValidation /\ [][NextValidation]_vars

(***************************************************************************)
(* Entity similarity (extraction/similarity.py) and the duplicate scan     *)
(* (render_entity_deduplication).  The scores are floats in the code; here *)
(* they are fractions in lowest terms, so that two scores are equal        *)
(* exactly when the quotients the code computes are equal.  Names,         *)
(* descriptions and keywords are sequences of one-character strings.       *)
(***************************************************************************)
RECURSIVE GCD(_, _)
GCD(a, b) == IF b = 0 THEN a ELSE GCD(b, a % b)

\* the quotient n / d
Frac(n, d) == [num |-> n \div GCD(n, d), den |-> d \div GCD(n, d)]

FracAdd(x, y) == Frac(x.num * y.den + y.num * x.den, x.den * y.den)
FracMul(x, y) == Frac(x.num * y.num, x.den * y.den)
FracGreater(x, y) == x.num * y.den > y.num * x.den

Digits == {"0", "1", "2", "3", "4", "5", "6", "7", "8", "9"}

\* the characters \w matches
WordChars ==
    {LowerChars[i] : i \in 1..Len(LowerChars)} \cup
    {UpperChars[i] : i \in 1..Len(UpperChars)} \cup Digits \cup {"_"}

\* re.findall(r'\b\w+\b', text): the maximal runs of word characters of
\* text; cur is the run being read
RECURSIVE findall_words(_, _)
findall_words(text, cur) ==
    LET done == IF cur = <<>> THEN {} ELSE {cur}
    IN  IF text = <<>> THEN done
        ELSE IF Head(text) \in WordChars
             THEN findall_words(Tail(text), Append(cur, Head(text)))
             ELSE done \cup findall_words(Tail(text), <<>>)

get_tokens(text) == findall_words(Lower(text), <<>>)

\* difflib.SequenceMatcher without junk: the length of the common run of a
\* and b that starts at a[i] and b[j] and stays inside a[..ahi], b[..bhi]
RECURSIVE run_length(_, _, _, _, _, _)
run_length(a, b, i, j, ahi, bhi) ==
    IF i <= ahi /\ j <= bhi /\ a[i] = b[j]
    THEN 1 + run_length(a, b, i + 1, j + 1, ahi, bhi)
    ELSE 0

\* SequenceMatcher.find_longest_match: the longest block common to
\* a[alo..ahi] and b[blo..bhi]; of the longest ones the one that starts
\* earliest in a, and of those the one that starts earliest in b
find_longest_match(a, b, alo, ahi, blo, bhi) ==
    LET starts == (alo..ahi) \X (blo..bhi)
        size(p) == run_length(a, b, p[1], p[2], ahi, bhi)
        first(p, q) == p[1] < q[1] \/ (p[1] = q[1] /\ p[2] <= q[2])
    IN  IF \A p \in starts : size(p) = 0
        THEN [a |-> alo, b |-> blo, size |-> 0]
        ELSE LET best == CHOOSE p \in starts :
                            \A q \in starts :
                                \/ size(p) > size(q)
                                \/ size(p) = size(q) /\ first(p, q)
             IN  [a |-> best[1], b |-> best[2], size |-> size(best)]

\* the sum of the sizes of SequenceMatcher.get_matching_blocks(): the
\* longest block, then the same to its left and to its right
RECURSIVE matching_size(_, _, _, _, _, _)
matching_size(a, b, alo, ahi, blo, bhi) ==
    LET m == find_longest_match(a, b, alo, ahi, blo, bhi)
    IN  IF m.size = 0 THEN 0
        ELSE m.size
             + matching_size(a, b, alo, m.a - 1, blo, m.b - 1)
             + matching_size(a, b, m.a + m.size, ahi, m.b + m.size, bhi)

\* SequenceMatcher(None, a, b).ratio()
ratio(a, b) ==
    IF Len(a) + Len(b) = 0 THEN Frac(1, 1)
    ELSE Frac(2 * matching_size(a, b, 1, Len(a), 1, Len(b)), Len(a) + Len(b))

overlap_vacuous(s1, s2) ==
    IF s1 = {} /\ s2 = {} THEN Frac(1, 1)
    ELSE Frac(Cardinality(s1 \cap s2), Cardinality(s1 \cup s2))

\* len(s1 & s2) / len(s1 | s2), 0.0 when either set is empty
overlap(s1, s2) ==
    IF s1 = {} \/ s2 = {} THEN Frac(0, 1)
    ELSE Frac(Cardinality(s1 \cap s2), Cardinality(s1 \cup s2))

calculate_entity_similarity(e1, e2) ==
    LET name_sim == ratio(Lower(e1.name), Lower(e2.name))
        desc_sim == overlap(get_tokens(e1.description), get_tokens(e2.description))
        kw_sim == overlap({Lower(k) : k \in Range(e1.keywords)},
                          {Lower(k) : k \in Range(e2.keywords)})
    IN  [total |-> FracAdd(FracAdd(FracMul(name_sim, Frac(5, 10)),
                                   FracMul(desc_sim, Frac(3, 10))),
                           FracMul(kw_sim, Frac(2, 10))),
         name |-> name_sim, desc |-> desc_sim, keywords |-> kw_sim]

\* scores["total"] > 0.6
exceeds_threshold(scores) == FracGreater(scores.total, Frac(6, 10))

\* itertools.combinations(range(n), 2) from the pair (i, j) on
RECURSIVE combinations_from(_, _, _)
combinations_from(i, j, n) ==
    IF i >= n THEN <<>>
    ELSE IF j > n THEN combinations_from(i + 1, i + 2, n)
    ELSE << <<i, j>> >> \o combinations_from(i, j + 1, n)

\* the loop of the scan over the remaining pairs
RECURSIVE scan_pairs(_, _, _)
scan_pairs(ents, pairs, found) ==
    IF pairs = <<>> THEN found
    ELSE LET e1 == Head(pairs)[1]
             e2 == Head(pairs)[2]
             scores == calculate_entity_similarity(ents[e1], ents[e2])
         IN  scan_pairs(ents, Tail(pairs),
                        IF exceeds_threshold(scores)
                        THEN Append(found, [e1 |-> e1, e2 |-> e2, scores |-> scores])
                        ELSE found)

\* "Run Similarity Scan" on the mirrored entities, in the order of the dict
render_entity_deduplication(ents) ==
    IF Len(ents) < 2 THEN [evaluated |-> <<>>, found |-> <<>>]
    ELSE LET pairs == combinations_from(1, 2, Len(ents))
         IN  [evaluated |-> pairs, found |-> scan_pairs(ents, pairs, <<>>)]

Name_tide == <<"t", "i", "d", "e">>
Name_Tide == <<"T", "i", "d", "e">>
Name_diet == <<"d", "i", "e", "t">>
Desc_x_y == <<"x", " ", "y">>
Desc_y_z == <<"y", ",", " ", "Z">>
Desc_p_q == <<"p", " ", "q">>
Desc_x_y_z == <<"x", " ", "y", ",", " ", "Z">>
Kw_k == <<"k">>
Kw_K == <<"K">>
Kw_m == <<"m">>

SimilarityNode(name, description, keywords) ==
    [name |-> name, type |-> "Concept", description |-> description,
     keywords |-> keywords, source_knowledge_ids |-> {1}]

\* entities as the mirror may hold them
SimilarityNodes ==
    { SimilarityNode(Name_tide, Desc_x_y, <<Kw_k>>),
      SimilarityNode(Name_diet, Desc_x_y_z, <<Kw_K>>),
      SimilarityNode(Name_Tide, Desc_x_y, <<Kw_k, Kw_K>>),
      SimilarityNode(Name_tide, Desc_p_q, <<Kw_m>>),
      SimilarityNode(Name_tide, Desc_y_z, <<Kw_m>>),
      SimilarityNode(Name_a, <<>>, <<>>) }

\* the values of st.session_state.entities: two or three entities
SimilarityProbes ==
    { [ents |-> <<x, y>>] : x \in SimilarityNodes, y \in SimilarityNodes } \cup
    { [ents |-> <<x, y, z>>] :
        x \in SimilarityNodes, y \in SimilarityNodes, z \in SimilarityNodes }

InitSimilarity ==
    /\ InitStore(InitialTypes)
    /\ probe \in SimilarityProbes
    /\ verdict = NoVerdict

\* calculate_entity_similarity on the first two entities, in both orders
ScoreEntities ==
    /\ verdict.stage = "none"
    /\ verdict' = [stage |-> "scored",
                   scores |-> calculate_entity_similarity(probe.ents[1], probe.ents[2]),
                   swapped |-> calculate_entity_similarity(probe.ents[2], probe.ents[1])]
    /\ UNCHANGED << storeVars, probe >>

\* the scan over all entities of the probe
ScanEntities ==
    /\ verdict.stage = "scored"
    /\ verdict' = [stage |-> "scanned", scores |-> verdict.scores,
                   swapped |-> verdict.swapped,
                   scan |-> render_entity_deduplication(probe.ents)]
    /\ UNCHANGED << storeVars, probe >>

NextSimilarity == ScoreEntities \/ ScanEntities

SpecSimilarity == InitSimilarity /\ [][NextSimilarity]_vars

(***************************************************************************)
(* Properties of ingestion                                                 *)
(***************************************************************************)
\* the records a run writes carry the id of its knowledge entry
RunEntities(entities, k) == {id \in DOMAIN entities : k \in entities[id].source_knowledge_ids}
RunEvidence(evidence, k) == {id \in DOMAIN evidence : evidence[id].source_knowledge_id = k}
RunAssertions(assertions, k) == {id \in DOMAIN assertions : assertions[id].knowledge_id = k}

\* nothing of run k is in the given tables
AbsentFromStore(tables, k) ==
    /\ k \notin DOMAIN tables.knowledge
    /\ RunEntities(tables.entities, k) = {}
    /\ RunEvidence(tables.evidence, k) = {}
    /\ RunAssertions(tables.relation_assertions, k) = {}

\* nothing of run k is in the given mirror
AbsentFromMirror(state, k) ==
    /\ \A i \in 1..Len(state.knowledges) : state.knowledges[i].id # k
    /\ RunEntities(state.entities, k) = {}
    /\ \A i \in 1..Len(state.relation_assertions) :
          state.relation_assertions[i].knowledge_id # k

\* every write the run issued is in the given tables
AllWritesIn(tables) ==
    /\ new_knowledge \in DOMAIN tables.knowledge
    /\ \A i \in 1..Len(final_entity_ids) : final_entity_ids[i] \in DOMAIN tables.entities
    /\ DOMAIN new_evidence_buffer \subseteq DOMAIN tables.evidence
    /\ \A i \in 1..Len(new_relations_buffer) :
          /\ new_relations_buffer[i].id \in DOMAIN tables.relation_assertions
          /\ tables.relation_assertions[new_relations_buffer[i].id] = new_relations_buffer[i]

\* C1: save_knowledge_flow is atomic on the durable store.  While a run is in
\* progress the store changes only at the commit, which publishes every write
\* of the run at once; a run that fails after some writes ends with the store
\* and the mirror exactly as they were, holding nothing the run wrote.
C1_IngestionAtomic ==
    [][ pc # "idle" =>
          /\ db' # db => (pc = "commit" /\ db' = conn /\ AllWritesIn(db'))
          /\ (pc = "rollback" \/ pc' = "rollback") => (db' = db /\ ss' = ss)
          /\ pc = "rollback" =>
                /\ pc' = "idle"
                /\ outcome'.op = "failed"
                /\ conn' = db
                /\ AbsentFromStore(db', new_knowledge)
                /\ AbsentFromMirror(ss', new_knowledge)
                /\ DOMAIN new_evidence_buffer \cap DOMAIN db'.evidence = {}
      ]_vars

\* a run about to roll back after writing entities and an evidence row
C1_Witness ==
    /\ pc = "rollback"
    /\ RunEntities(conn.entities, new_knowledge) # {}
    /\ RunEvidence(conn.evidence, new_knowledge) # {}
    /\ conn.relation_assertions = db.relation_assertions

\* the stages of a run that precede a successful commit, and the except clause
Uncommitted == {"entities", "relationships", "save_knowledge", "commit", "rollback"}

\* C2: the mirror never reflects uncommitted state.  Every entity, knowledge
\* entry, evidence span and assertion in the mirror is in the durable store,
\* and nothing of a run is in the mirror while its transaction is open.
C2_MirrorOnlyCommitted ==
    /\ DOMAIN ss.entities \subseteq DOMAIN db.entities
    /\ DOMAIN ss.evidence \subseteq DOMAIN db.evidence
    /\ \A i \in 1..Len(ss.knowledges) : ss.knowledges[i].id \in DOMAIN db.knowledge
    /\ \A i \in 1..Len(ss.relation_assertions) :
          ss.relation_assertions[i].id \in DOMAIN db.relation_assertions
    /\ pc \in Uncommitted =>
          /\ AbsentFromMirror(ss, new_knowledge)
          /\ DOMAIN new_evidence_buffer \cap DOMAIN ss.evidence = {}

\* a run whose commit is pending: entities, an evidence row, an assertion and
\* the knowledge entry are written but not committed, and the mirror has none
C2_Witness ==
    /\ pc = "commit"
    /\ new_knowledge \in DOMAIN conn.knowledge
    /\ new_knowledge \notin DOMAIN db.knowledge
    /\ RunAssertions(conn.relation_assertions, new_knowledge) # {}
    /\ RunEvidence(conn.evidence, new_knowledge) # {}
    /\ AbsentFromMirror(ss, new_knowledge)

(***************************************************************************)
(* Properties of the knowledge graph                                       *)
(***************************************************************************)
\* the ids of the types the mirror holds
MirroredTypeIds == TypeIds(ss.relationship_types)

\* every assertion of the durable store references an existing type and two
\* existing entities
StoreIntegrity ==
    \A id \in DOMAIN db.relation_assertions :
        /\ db.relation_assertions[id].relationship_type_id \in TypeIds(db.relationship_types)
        /\ db.relation_assertions[id].source_entity_id \in DOMAIN db.entities
        /\ db.relation_assertions[id].target_entity_id \in DOMAIN db.entities

\* every mirrored assertion references two mirrored entities
MirrorEndpointIntegrity ==
    \A i \in 1..Len(ss.relation_assertions) :
        /\ ss.relation_assertions[i].source_entity_id \in DOMAIN ss.entities
        /\ ss.relation_assertions[i].target_entity_id \in DOMAIN ss.entities

\* every mirrored assertion references a mirrored type
MirrorTypeIntegrity ==
    \A i \in 1..Len(ss.relation_assertions) :
        ss.relation_assertions[i].relationship_type_id \in MirroredTypeIds

\* C3: in every reachable state, every RelationAssertion of the durable store
\* and of the mirror references a RelationshipType that exists and a source
\* and a target Entity that exist.
C3_ReferentialIntegrity ==
    /\ StoreIntegrity
    /\ MirrorEndpointIntegrity
    /\ MirrorTypeIntegrity

\* C4: after a merge of duplicate B into master A (A # B), in the durable
\* store and in the mirror alike, every assertion endpoint that was B is A
\* and every other endpoint is as before, no assertion references B, B no
\* longer exists, and A's source_knowledge_ids is the union of A's and B's.
C4_MergeCorrect ==
    [][ (pc = "idle" /\ outcome'.op = "merged") =>
          LET A == outcome'.master
              B == outcome'.duplicate
              To(id) == IF id = B THEN A ELSE id
              sources == ss.entities[A].source_knowledge_ids
                            \cup ss.entities[B].source_knowledge_ids
          IN  /\ A # B
              /\ DOMAIN db'.relation_assertions = DOMAIN db.relation_assertions
              /\ \A id \in DOMAIN db.relation_assertions :
                    /\ db'.relation_assertions[id].source_entity_id
                          = To(db.relation_assertions[id].source_entity_id)
                    /\ db'.relation_assertions[id].target_entity_id
                          = To(db.relation_assertions[id].target_entity_id)
                    /\ db'.relation_assertions[id].source_entity_id # B
                    /\ db'.relation_assertions[id].target_entity_id # B
              /\ Len(ss'.relation_assertions) = Len(ss.relation_assertions)
              /\ \A i \in 1..Len(ss.relation_assertions) :
                    /\ ss'.relation_assertions[i].source_entity_id
                          = To(ss.relation_assertions[i].source_entity_id)
                    /\ ss'.relation_assertions[i].target_entity_id
                          = To(ss.relation_assertions[i].target_entity_id)
                    /\ ss'.relation_assertions[i].source_entity_id # B
                    /\ ss'.relation_assertions[i].target_entity_id # B
              /\ DOMAIN db'.entities = DOMAIN db.entities \ {B}
              /\ DOMAIN ss'.entities = DOMAIN ss.entities \ {B}
              /\ db'.entities[A].source_knowledge_ids = sources
              /\ ss'.entities[A].source_knowledge_ids = sources
      ]_vars

\* a merge has repointed a mentors assertion, admitted only between two
\* distinct entities, so that both its endpoints are the master
C4_Witness ==
    /\ outcome.op = "merged"
    /\ outcome.duplicate \notin DOMAIN db.entities
    /\ \E id \in DOMAIN db.relation_assertions :
          /\ db.relation_assertions[id].relationship_type_id = "mentors"
          /\ db.relation_assertions[id].source_entity_id = outcome.master
          /\ db.relation_assertions[id].target_entity_id = outcome.master
    /\ \E i \in 1..Len(ss.relation_assertions) :
          /\ ss.relation_assertions[i].relationship_type_id = "mentors"
          /\ ss.relation_assertions[i].source_entity_id = outcome.master
          /\ ss.relation_assertions[i].target_entity_id = outcome.master

\* C5: every assertion ingestion creates has system_confidence equal to the
\* minimum of the candidate's confidence, the confidences of the entities its
\* source and target resolved to, and its ontology confidence, hence at most
\* min(extraction_confidence, ontology_confidence); also when two candidate
\* entities of the run share a normalized name.
C5_SystemConfidenceIsMin ==
    \A i \in 1..Len(new_relations_buffer) :
        LET ra == new_relations_buffer[i]
            src_conf == conn.entities[ra.source_entity_id].confidence
            tgt_conf == conn.entities[ra.target_entity_id].confidence
        IN  /\ \A c \in {ra.extraction_confidence, src_conf, tgt_conf,
                         ra.ontology_confidence} : ra.system_confidence <= c
            /\ ra.system_confidence \in {ra.extraction_confidence, src_conf, tgt_conf,
                                         ra.ontology_confidence}
            /\ ra.system_confidence <= Min2(ra.extraction_confidence, ra.ontology_confidence)

\* a run with two entities of one normalized name and different confidences
\* has created an assertion whose system_confidence is that of the entity its
\* endpoints resolved to, below the candidate's and the ontology confidence
C5_Witness ==
    /\ pc = "relationships"
    /\ Len(new_relations_buffer) = 1
    /\ \E i, j \in DOMAIN new_entities_buffer :
          /\ i # j
          /\ normalize_entity_name(new_entities_buffer[i].name)
                = normalize_entity_name(new_entities_buffer[j].name)
          /\ conn.entities[i].confidence # conn.entities[j].confidence
          /\ new_relations_buffer[1].source_entity_id = j
          /\ new_relations_buffer[1].system_confidence = conn.entities[j].confidence
          /\ conn.entities[j].confidence < new_relations_buffer[1].extraction_confidence
          /\ conn.entities[j].confidence < new_relations_buffer[1].ontology_confidence

\* C6: the three confidences of every stored assertion lie in [0, 1] (0..10
\* in tenths), whatever confidences the oracle reports.
C6_ConfidencesInUnitInterval ==
    \A id \in DOMAIN db.relation_assertions :
        /\ db.relation_assertions[id].extraction_confidence \in 0..10
        /\ db.relation_assertions[id].ontology_confidence \in 0..10
        /\ db.relation_assertions[id].system_confidence \in 0..10

(***************************************************************************)
(* Properties of the admission gate inside ingestion                       *)
(***************************************************************************)
\* a loop iteration that went on to the next candidate: rel' is the candidate
\* it processed
RelationshipIteration == pc = "relationships" /\ pc' = "relationships" /\ rel' # NoRel

SourceOf(r) == LookupEntity(ResolvedSourceId(r))
TargetOf(r) == LookupEntity(ResolvedTargetId(r))
OntologyConfidenceOf(r) ==
    calculate_ontology_confidence(r, ResolvedType(r), SourceOf(r), TargetOf(r))

\* the iteration stored exactly one evidence row and one assertion, both
\* buffered for the mirror
StoredOne ==
    LET n == uuid.relation + 1
    IN  /\ DOMAIN conn'.evidence = DOMAIN conn.evidence \cup {n}
        /\ n \notin DOMAIN conn.evidence
        /\ conn'.evidence[n].text_span = rel'.evidence_span
        /\ DOMAIN conn'.relation_assertions = DOMAIN conn.relation_assertions \cup {n}
        /\ n \notin DOMAIN conn.relation_assertions
        /\ conn'.relation_assertions[n].evidence_ids = <<n>>
        /\ new_relations_buffer' = Append(new_relations_buffer, conn'.relation_assertions[n])
        /\ DOMAIN new_evidence_buffer' = DOMAIN new_evidence_buffer \cup {n}

\* the iteration stored and buffered nothing
StoredNothing == UNCHANGED << conn, new_relations_buffer, new_evidence_buffer, ss, db >>

\* C8: for a candidate whose type and both endpoints resolve, ingestion
\* creates an evidence record and an assertion if and only if the two guards
\* pass, the ontology confidence is at least 0.5 and the schema check passes;
\* otherwise no evidence row, no assertion row and no mirrored record.
C8_AdmissionGate ==
    [][ (RelationshipIteration /\ Resolves(rel')) =>
          IF /\ run_all_validation_rules(rel')
             /\ OntologyConfidenceOf(rel') >= AdmissionThreshold
             /\ validate_extracted_relationship(rel', ResolvedType(rel'),
                                                SourceOf(rel'), TargetOf(rel'))
          THEN StoredOne
          ELSE StoredNothing
      ]_vars

\* an instance_of candidate that resolves, passes the guards and the schema
\* check and scores below 0.5 has been processed, and nothing was stored
C8_Witness ==
    /\ pc = "relationships"
    /\ rel # NoRel
    /\ Resolves(rel)
    /\ rel.machine_name = "instance_of"
    /\ run_all_validation_rules(rel)
    /\ validate_extracted_relationship(rel, ResolvedType(rel), SourceOf(rel), TargetOf(rel))
    /\ OntologyConfidenceOf(rel) < AdmissionThreshold
    /\ new_relations_buffer = <<>>
    /\ conn.evidence = db.evidence
    /\ conn.relation_assertions = db.relation_assertions

\* a resolved candidate of the non-deterministic type teaches whose source
\* is a Concept
TeachesFromConcept(r) ==
    /\ Resolves(r)
    /\ ResolvedType(r).machine_name = "teaches"
    /\ ~ResolvedType(r).deterministic
    /\ SourceOf(r).type = "Concept"

\* C9 as stated: a teaches candidate whose source is a Concept ends with
\* ontology confidence at most 0.5 and no assertion is stored for it.
C9_TeachesFromConceptNeverStored ==
    [][ (RelationshipIteration /\ TeachesFromConcept(rel')) =>
          /\ OntologyConfidenceOf(rel') <= 5
          /\ StoredNothing
      ]_vars

\* C9: a teaches candidate whose source is a Concept takes the 0.5 penalty
\* and ends with ontology confidence at most 0.5.  Below 0.5 it is rejected;
\* at exactly 0.5 it passes the threshold, and when the guards and the schema
\* check pass too, an assertion with ontology confidence 0.5 is stored.
C9_TeachesFromConceptPenalised ==
    [][ (RelationshipIteration /\ TeachesFromConcept(rel')) =>
          /\ evaluate("R7", rel', ResolvedType(rel'), SourceOf(rel'), TargetOf(rel')) = 5
          /\ OntologyConfidenceOf(rel') <= 5
          /\ OntologyConfidenceOf(rel') < 5 => StoredNothing
          /\ ( /\ OntologyConfidenceOf(rel') = 5
               /\ run_all_validation_rules(rel')
               /\ validate_extracted_relationship(rel', ResolvedType(rel'),
                                                  SourceOf(rel'), TargetOf(rel')) )
             => /\ StoredOne
                /\ conn'.relation_assertions[uuid.relation + 1].ontology_confidence = 5
      ]_vars

\* a teaches assertion whose source is a Concept is buffered with ontology
\* confidence 0.5
C9_Witness ==
    /\ pc = "relationships"
    /\ rel # NoRel
    /\ TeachesFromConcept(rel)
    /\ Len(new_relations_buffer) = 1
    /\ new_relations_buffer[1].relationship_type_id = "teaches"
    /\ new_relations_buffer[1].source_entity_id = ResolvedSourceId(rel)
    /\ new_relations_buffer[1].ontology_confidence = 5

\* C20: a skipped candidate (unknown type name, unresolved source or target
\* name, or rejection by the gate) does not abort the run and touches
\* nothing: the loop goes on with the store, the transaction, the mirror and
\* every local of the run as they were, so the entities and the knowledge
\* entry are committed as without it; a candidate that resolves and passes
\* the gate is stored, whatever was skipped or stored before it.
C20_SkipAndContinue ==
    [][ (pc = "relationships" /\ rel' # NoRel) =>
          IF \/ FindType(ss.relationship_types, rel'.machine_name) = 0
             \/ normalize_entity_name(rel'.source_entity) \notin DOMAIN entity_name_map
             \/ normalize_entity_name(rel'.target_entity) \notin DOMAIN entity_name_map
             \/ ~full_relation_validation(rel', ResolvedType(rel'),
                                          SourceOf(rel'), TargetOf(rel'))
          THEN /\ pc' = "relationships"
               /\ UNCHANGED << db, conn, ss, extraction, new_knowledge, final_entity_ids,
                               entity_name_map, entity_conf_map, new_entities_buffer,
                               new_relations_buffer, new_evidence_buffer, uuid, outcome >>
          ELSE pc' = "relationships" => StoredOne
      ]_vars

\* a candidate of the unknown type xyz has been skipped after an assertion
\* of the run was stored, and the loop is still running
C20_Witness ==
    /\ pc = "relationships"
    /\ rel # NoRel
    /\ FindType(ss.relationship_types, rel.machine_name) = 0
    /\ Len(new_relations_buffer) = 1
    /\ new_relations_buffer[1].id \in DOMAIN conn.relation_assertions
    /\ \A i \in 1..Len(final_entity_ids) : final_entity_ids[i] \in DOMAIN conn.entities

\* the mirrored type an assertion of the run references
TypeOf(ra) ==
    CHOOSE rt \in Range(ss.relationship_types) : rt.id = ra.relationship_type_id

DeclaredSet(rt, side) ==
    IF side \in DOMAIN rt.allowed_entity_types THEN rt.allowed_entity_types[side] ELSE {}

Conforms(ra) ==
    LET rt == TypeOf(ra)
        s == new_entities_buffer[ra.source_entity_id]
        t == new_entities_buffer[ra.target_entity_id]
    IN  /\ rt.allowed_entity_types # EmptyDict =>
              /\ s.type \in DeclaredSet(rt, "source")
              /\ t.type \in DeclaredSet(rt, "target")
        /\ rt.properties_schema # EmptyDict =>
              \A key \in DOMAIN rt.properties_schema :
                  /\ key \in DOMAIN ra.semantic_properties
                  /\ rt.properties_schema[key].type = "enum" =>
                        ra.semantic_properties[key] \in rt.properties_schema[key].values

NamesEarlierEntityOnly(name) ==
    /\ normalize_entity_name(name) \notin DOMAIN entity_name_map
    /\ \E id \in DOMAIN ss.entities :
          normalize_entity_name(ss.entities[id].name) = normalize_entity_name(name)

\* C24: the source and the target of every assertion an ingestion run creates
\* are entities created by that run, and a candidate naming an entity that an
\* earlier run stored and the running one did not extract is dropped: no
\* evidence row, no assertion row, nothing buffered for the mirror.
C24_NoFallbackToStoredEntities ==
    [][ (pc = "relationships" /\ rel' # NoRel) =>
          /\ \A i \in 1..Len(new_relations_buffer') :
                /\ new_relations_buffer'[i].source_entity_id \in Range(final_entity_ids)
                /\ new_relations_buffer'[i].target_entity_id \in Range(final_entity_ids)
                /\ new_relations_buffer'[i].source_entity_id \notin DOMAIN ss.entities
                /\ new_relations_buffer'[i].target_entity_id \notin DOMAIN ss.entities
          /\ (NamesEarlierEntityOnly(rel'.source_entity)
                 \/ NamesEarlierEntityOnly(rel'.target_entity)) =>
                (pc' = "relationships" /\ StoredNothing /\ uuid' = uuid)
      ]_vars

\* the candidate is_a(a, b) with definitional evidence has just been dropped in
\* a run that created b alone, while a is mirrored from an earlier run
C24_Witness ==
    /\ pc = "relationships"
    /\ rel # NoRel
    /\ rel.machine_name = "is_a"
    /\ rel.evidence_span = Ev_a_is_a_b
    /\ NamesEarlierEntityOnly(rel.source_entity)
    /\ normalize_entity_name(rel.target_entity) \in DOMAIN entity_name_map
    /\ new_relations_buffer = <<>>
    /\ conn.relation_assertions = db.relation_assertions

(***************************************************************************)
(* Properties of the oracle's failures and of the run's records            *)
(***************************************************************************)
\* C11: when an oracle call of an ingestion run fails (the entity call or the
\* relationship call of extract_data), nothing is written to the durable
\* store and nothing is added to the mirror.
C11_OracleFailureNoSideEffects ==
    [][ (extraction = "relations_failed" \/ outcome'.op = "extraction_failed") =>
          (db' = db /\ ss' = ss)
      ]_vars

\* C12: a run creates exactly one new entity with a fresh id per candidate
\* entity and never modifies or deletes an entity that existed before it, in
\* the durable store or in the mirror; each new entity's source_knowledge_ids
\* holds the run's knowledge id alone.
C12_ImmutableExtraction ==
    [][ pc # "idle" =>
          /\ \A id \in DOMAIN db.entities :
                /\ id \in DOMAIN conn'.entities /\ conn'.entities[id] = db.entities[id]
                /\ id \in DOMAIN db'.entities /\ db'.entities[id] = db.entities[id]
          /\ \A id \in DOMAIN ss.entities :
                id \in DOMAIN ss'.entities /\ ss'.entities[id] = ss.entities[id]
          /\ (pc = "entities" /\ pc' = "entities") =>
                \E new_id \in DOMAIN conn'.entities :
                    /\ new_id \notin DOMAIN conn.entities \cup DOMAIN ss.entities
                    /\ DOMAIN conn'.entities = DOMAIN conn.entities \cup {new_id}
                    /\ conn'.entities[new_id].source_knowledge_ids = {new_knowledge}
                    /\ final_entity_ids' = Append(final_entity_ids, new_id)
                    /\ DOMAIN new_entities_buffer' = DOMAIN new_entities_buffer \cup {new_id}
                    /\ new_entities_buffer'[new_id].source_knowledge_ids = {new_knowledge}
      ]_vars

\* two committed and mirrored runs have each created an entity of the same
\* name: two entities, each with its own run's knowledge id alone
C12_Witness ==
    /\ pc = "idle"
    /\ outcome.op = "saved"
    /\ \E i, j \in DOMAIN db.entities :
          /\ i # j
          /\ db.entities[i].name = db.entities[j].name
          /\ db.entities[i].source_knowledge_ids = {1}
          /\ db.entities[j].source_knowledge_ids = {2}
          /\ {i, j} \subseteq DOMAIN ss.entities
          /\ ss.entities[i].source_knowledge_ids = {1}
          /\ ss.entities[j].source_knowledge_ids = {2}

\* C19: after a successful run the KnowledgeEntry of the run has
\* related_entity_ids equal to the ordered list of the entity ids created in
\* the run, in the row of the knowledge table and in the entry appended to
\* the mirror.
C19_RelatedEntityIds ==
    pc = "session_evidence" =>
        LET entry == ss.knowledges[Len(ss.knowledges)]
        IN  /\ Range(final_entity_ids) = RunEntities(db.entities, new_knowledge)
            /\ db.knowledge[new_knowledge].related_entity_ids = final_entity_ids
            /\ entry.id = new_knowledge
            /\ entry.related_entity_ids = final_entity_ids

(***************************************************************************)
(* Properties of the merge                                                 *)
(***************************************************************************)
\* a step that is a merge of outcome'.duplicate into outcome'.master
MergeEnded(op) == pc = "idle" /\ outcome'.op = op

\* C13: when the synthesis oracle fails during a merge, the keywords written
\* to the master are the union of the master's and the duplicate's keywords
\* and the master's description is retained, in the store and in the mirror.
C13_FallbackIsKeywordUnion ==
    [][ (MergeEnded("merged") /\ outcome'.synthesis = "failed") =>
          LET A == outcome'.master
              B == outcome'.duplicate
              union == Range(ss.entities[A].keywords) \cup Range(ss.entities[B].keywords)
          IN  /\ Range(db'.entities[A].keywords) = union
              /\ Range(ss'.entities[A].keywords) = union
              /\ db'.entities[A].description = db.entities[A].description
              /\ ss'.entities[A].description = ss.entities[A].description
      ]_vars

\* no assertion of the tables or of the mirror references the entity
Unreferenced(tables, state, id) ==
    /\ \A a \in DOMAIN tables.relation_assertions :
          /\ tables.relation_assertions[a].source_entity_id # id
          /\ tables.relation_assertions[a].target_entity_id # id
    /\ \A i \in 1..Len(state.relation_assertions) :
          /\ state.relation_assertions[i].source_entity_id # id
          /\ state.relation_assertions[i].target_entity_id # id

\* C14: a failure of the synthesis oracle never blocks a merge.  The merge
\* does not raise because of it, and unless a durable write fails it repoints
\* the assertions, updates the master with the fallback content and deletes
\* the duplicate, in the durable store and in the mirror.
C14_SynthesisFailureDoesNotBlockMerge ==
    [][ ( /\ pc = "idle"
          /\ outcome'.op \in {"merged", "merge_failed", "synthesis_raised"}
          /\ outcome'.synthesis = "failed" ) =>
          LET A == outcome'.master
              B == outcome'.duplicate
          IN  /\ outcome'.op # "synthesis_raised"
              /\ outcome'.op = "merged" =>
                    /\ B \notin DOMAIN db'.entities
                    /\ B \notin DOMAIN ss'.entities
                    /\ Unreferenced(db', ss', B)
                    /\ A \in DOMAIN db'.entities /\ A \in DOMAIN ss'.entities
                    /\ db'.entities[A].description = ss.entities[A].description
                    /\ ss'.entities[A].description = ss.entities[A].description
                    /\ db'.entities[A].source_knowledge_ids
                          = ss.entities[A].source_knowledge_ids
                               \cup ss.entities[B].source_knowledge_ids
      ]_vars

\* a merge whose synthesis failed has completed: the duplicate is gone and an
\* assertion between the two entities now has the master at both ends
C14_Witness ==
    /\ outcome.op = "merged"
    /\ outcome.synthesis = "failed"
    /\ outcome.duplicate \notin DOMAIN db.entities \cup DOMAIN ss.entities
    /\ \E i \in 1..Len(ss.relation_assertions) :
          /\ ss.relation_assertions[i].source_entity_id = outcome.master
          /\ ss.relation_assertions[i].target_entity_id = outcome.master
          /\ db.relation_assertions[ss.relation_assertions[i].id].source_entity_id
                = outcome.master
          /\ db.relation_assertions[ss.relation_assertions[i].id].target_entity_id
                = outcome.master

\* C15: when a durable write or the commit of a merge fails, the mirror is
\* left exactly as it was before the merge and none of the merge's writes
\* (repointing, master update, duplicate deletion) is in the durable store.
C15_NoMirrorDriftOnFailedMerge ==
    [][ MergeEnded("merge_failed") =>
          /\ ss' = ss
          /\ db' = db
          /\ conn' = db
          /\ Cardinality(DOMAIN db'.entities \cap DOMAIN ss'.entities) >= 2
      ]_vars

\* a merge of the only two entities has failed on its durable writes while
\* an assertion links them, so that it references the duplicate whichever
\* of the two that was: both entities and the reference are still there
C15_Witness ==
    /\ outcome.op = "merge_failed"
    /\ DOMAIN db.entities = DOMAIN ss.entities
    /\ Cardinality(DOMAIN db.entities) = 2
    /\ \E i \in 1..Len(ss.relation_assertions) :
          LET mirrored == ss.relation_assertions[i]
              stored == db.relation_assertions[mirrored.id]
          IN  /\ mirrored.source_entity_id # mirrored.target_entity_id
              /\ {mirrored.source_entity_id, mirrored.target_entity_id} = DOMAIN db.entities
              /\ stored.source_entity_id = mirrored.source_entity_id
              /\ stored.target_entity_id = mirrored.target_entity_id

\* the assertion is as before but for the endpoints that were the duplicate
SameButEndpoints(after, before, A, B) ==
    after = [before EXCEPT
               !.source_entity_id = IF @ = B THEN A ELSE @,
               !.target_entity_id = IF @ = B THEN A ELSE @]

EntityView(entities) ==
    [id \in DOMAIN entities |->
        [name |-> entities[id].name, type |-> entities[id].type,
         description |-> entities[id].description,
         keywords |-> entities[id].keywords,
         source_knowledge_ids |-> entities[id].source_knowledge_ids]]

AssertionView(assertions) ==
    { [id |-> assertions[i].id,
       source_entity_id |-> assertions[i].source_entity_id,
       target_entity_id |-> assertions[i].target_entity_id,
       relationship_type_id |-> assertions[i].relationship_type_id,
       extraction_confidence |-> assertions[i].extraction_confidence,
       ontology_confidence |-> assertions[i].ontology_confidence,
       system_confidence |-> assertions[i].system_confidence] :
         i \in 1..Len(assertions) }

\* C29: between the operations of a session of ingestion runs and merges,
\* failed ones included, the mirror's entities (name, type, description,
\* keywords, source_knowledge_ids), its set of relation assertions (endpoints,
\* type id, confidences) and its evidence map are what load_data_from_db
\* rebuilds from the durable store.
C29_MirrorIsFaithfulCache ==
    pc = "idle" =>
        LET rebuilt == load_data_from_db(db)
        IN  /\ EntityView(ss.entities) = EntityView(rebuilt.entities)
            /\ AssertionView(ss.relation_assertions)
                  = AssertionView(rebuilt.relation_assertions)
            /\ Len(ss.relation_assertions) = Len(rebuilt.relation_assertions)
            /\ ss.evidence = rebuilt.evidence

\* after an ingestion run and a merge: one entity is left, the run's
\* assertion starts from it and its evidence is mirrored
C29_Witness ==
    /\ pc = "idle"
    /\ outcome.op = "merged"
    /\ DOMAIN ss.entities = {outcome.master}
    /\ Cardinality(ss.entities[outcome.master].source_knowledge_ids) >= 1
    /\ Len(ss.relation_assertions) = 1
    /\ ss.relation_assertions[1].source_entity_id = outcome.master
    /\ DOMAIN ss.evidence # {}
    /\ DOMAIN load_data_from_db(db).entities = {outcome.master}

\* C30: after perform_entity_merge on any two existing entity ids, equal ones
\* included, the master still exists in the store and in the mirror, and no
\* assertion that referenced it points at a missing entity.
C30_MasterSurvivesMerge ==
    [][ MergeEnded("merged") =>
          LET A == outcome'.master
          IN  /\ A \in DOMAIN db'.entities
              /\ A \in DOMAIN ss'.entities
              /\ \A id \in DOMAIN db.relation_assertions :
                    A \in { db.relation_assertions[id].source_entity_id,
                            db.relation_assertions[id].target_entity_id } =>
                        /\ db'.relation_assertions[id].source_entity_id
                              \in DOMAIN db'.entities
                        /\ db'.relation_assertions[id].target_entity_id
                              \in DOMAIN db'.entities
      ]_vars

(***************************************************************************)
(* Properties of type resolution                                           *)
(***************************************************************************)
\* the mirrored type of that id is deprecated
DeprecatedType(type_id) ==
    \E i \in DOMAIN ss.relationship_types :
        /\ ss.relationship_types[i].id = type_id
        /\ ss.relationship_types[i].deprecated

\* C18: ingestion resolves a machine name to the non-deprecated type of that
\* name, so no assertion created by ingestion references a type whose
\* deprecated flag is true, also when a deprecated and a non-deprecated
\* version of the machine name coexist in the registry.
C18_ResolutionUsesActiveVersion ==
    /\ (pc = "relationships" /\ rel # NoRel /\ Resolves(rel)) => ~ResolvedType(rel).deprecated
    /\ \A i \in DOMAIN new_relations_buffer :
          ~DeprecatedType(new_relations_buffer[i].relationship_type_id)

\* the positions of the non-deprecated types of a machine name
ActiveVersions(types, machine_name) ==
    { i \in 1..Len(types) :
        types[i].machine_name = machine_name /\ ~types[i].deprecated }

\* C27: whatever types were created and whatever files were imported, the
\* registry holds at most one non-deprecated type per machine name, in the
\* store and in the mirror.
C27_MachineNameUniqueAmongActive ==
    /\ \A i \in 1..Len(db.relationship_types) :
          Cardinality(ActiveVersions(db.relationship_types,
                                     db.relationship_types[i].machine_name)) <= 1
    /\ \A i \in 1..Len(ss.relationship_types) :
          Cardinality(ActiveVersions(ss.relationship_types,
                                     ss.relationship_types[i].machine_name)) <= 1

\* C28: update_relationship_type and delete_relationship_type change the
\* mirror only after their durable write has committed: when the write fails,
\* the mirrored relationship types and relation assertions are as before the
\* call.
C28_RegistryMirrorAfterCommit ==
    [][ (pc = "idle" /\ outcome'.op \in {"update_failed", "delete_failed"}) =>
          /\ ss'.relationship_types = ss.relationship_types
          /\ ss'.relation_assertions = ss.relation_assertions
      ]_vars

(***************************************************************************)
(* Properties of the validation engine                                     *)
(***************************************************************************)
Tier1Zero(p) ==
    \E i \in 1..Len(ONTOLOGY_CONSTRAINTS) :
        evaluate(ONTOLOGY_CONSTRAINTS[i], p.rel, p.rel_type, p.src, p.tgt) = 0

LaterTiers == Range(HEURISTIC_RULES) \cup Range(EVIDENCE_RULES)

\* C7: when a tier-1 rule scores 0.0 on a candidate, calculate_ontology_confidence
\* returns exactly 0.0 and evaluates no tier-2 or tier-3 rule.
C7_HardConstraintShortCircuit ==
    (verdict.stage # "none" /\ Tier1Zero(probe)) =>
        /\ verdict.run.score = 0
        /\ Range(verdict.run.evaluated) \cap LaterTiers = {}

\* a scored candidate that violates a hard constraint while a heuristic would
\* have scored it 0.5 and the evidence rule 0.6
C7_Witness ==
    /\ verdict.stage = "scored"
    /\ Tier1Zero(probe)
    /\ evaluate("R7", probe.rel, probe.rel_type, probe.src, probe.tgt) = 5
    /\ evaluate("R9", probe.rel, probe.rel_type, probe.src, probe.tgt) = 6
    /\ verdict.run.score = 0

AllRules == ONTOLOGY_CONSTRAINTS \o HEURISTIC_RULES \o EVIDENCE_RULES

RuleScores(p) ==
    { evaluate(AllRules[i], p.rel, p.rel_type, p.src, p.tgt) : i \in 1..Len(AllRules) }

\* C21: when no tier-1 rule scores 0.0 on a candidate, the ontology confidence
\* is the minimum of 1.0 and the scores of all the rules of the three tiers:
\* it is below no rule's score, it is 1.0 or the score of some rule, and it
\* lies between 0.0 and 1.0.
C21_MinimumAggregation ==
    (verdict.stage # "none" /\ ~Tier1Zero(probe)) =>
        /\ verdict.run.score \in 0..10
        /\ \A sc \in RuleScores(probe) : verdict.run.score <= sc
        /\ verdict.run.score = 10 \/ verdict.run.score \in RuleScores(probe)
        /\ RuleScores(probe) = {10} => verdict.run.score = 10

\* a performs candidate from a Concept whose evidence is advice: two
\* heuristics trigger with different scores, and the lower one is returned
C21_Witness ==
    /\ verdict.stage = "scored"
    /\ ~Tier1Zero(probe)
    /\ evaluate("R7", probe.rel, probe.rel_type, probe.src, probe.tgt) = 5
    /\ evaluate("R4", probe.rel, probe.rel_type, probe.src, probe.tgt) = 3
    /\ verdict.run.score = 3

\* the candidate declares a probability, and it is not the number 1.0
DeclaresOtherProbability(r) ==
    /\ "probability" \in DOMAIN r.semantic_properties
    /\ r.semantic_properties["probability"] # Num(10)

\* C22: for a deterministic type, every candidate that declares a probability
\* other than 1.0 gets ontology confidence 0.0 and is not admitted.
C22_DeterministicProbability ==
    (/\ verdict.stage = "gated"
     /\ probe.rel_type.deterministic
     /\ DeclaresOtherProbability(probe.rel)) =>
        /\ verdict.run.score = 0
        /\ ~verdict.admitted

\* C10: a candidate whose evidence span, trimmed, ends with "?" is rejected by
\* full_relation_validation, whatever its machine name, type definition and
\* endpoints, and whatever ontology confidence it obtains.
C10_QuestionEvidenceRejected ==
    (verdict.stage = "gated" /\ EndsWith(Strip(probe.rel.evidence_span), <<"?">>)) =>
        ~verdict.admitted

\* an is_a candidate with definitional phrasing, full ontology confidence and
\* a conforming schema, rejected for its question mark alone
C10_Witness ==
    /\ verdict.stage = "gated"
    /\ probe.rel.machine_name = "is_a"
    /\ probe.rel.evidence_span = Ev_B_kind_of_a_Q
    /\ block_invalid_is_a(probe.rel)
    /\ verdict.run.score = 10
    /\ validate_extracted_relationship(probe.rel, probe.rel_type, probe.src, probe.tgt)
    /\ ~verdict.admitted

(***************************************************************************)
(* Properties of the similarity scorer and the duplicate scan              *)
(***************************************************************************)
\* C16: similarity scoring is symmetric: calculate_entity_similarity(e1, e2)
\* and calculate_entity_similarity(e2, e1) return equal total, name,
\* description and keyword scores.
C16_SimilaritySymmetric ==
    verdict.stage = "scored" =>
        /\ verdict.scores.total = verdict.swapped.total
        /\ verdict.scores.name = verdict.swapped.name
        /\ verdict.scores.desc = verdict.swapped.desc
        /\ verdict.scores.keywords = verdict.swapped.keywords

\* the scan reported the pair of the entities at positions i and j
Reported(scan, i, j) ==
    \E f \in DOMAIN scan.found : scan.found[f].e1 = i /\ scan.found[f].e2 = j

\* identical lower-cased names, no description token and no keyword shared
SameNameOnly(e1, e2) ==
    /\ Lower(e1.name) = Lower(e2.name)
    /\ get_tokens(e1.description) \cap get_tokens(e2.description) = {}
    /\ {Lower(k) : k \in Range(e1.keywords)} \cap
       {Lower(k) : k \in Range(e2.keywords)} = {}

\* C17: the duplicate scan evaluates every unordered pair of distinct
\* entities exactly once and reports a pair if and only if its total
\* similarity is strictly greater than 0.6, whichever of the two entities
\* comes first; a pair with identical lower-cased names but disjoint
\* descriptions and disjoint keywords has total 0.5 and is not reported.
C17_ScanReportsAboveThreshold ==
    verdict.stage = "scanned" =>
        LET ents == probe.ents
            scan == verdict.scan
            total(i, j) == calculate_entity_similarity(ents[i], ents[j]).total
            above(t) == 10 * t.num > 6 * t.den
        IN  /\ \A i \in DOMAIN ents : \A j \in DOMAIN ents :
                  i < j =>
                    Cardinality({k \in DOMAIN scan.evaluated :
                                    scan.evaluated[k] \in {<<i, j>>, <<j, i>>}}) = 1
            /\ \A k \in DOMAIN scan.evaluated :
                  LET p == scan.evaluated[k]
                  IN  /\ p[1] \in DOMAIN ents /\ p[2] \in DOMAIN ents /\ p[1] # p[2]
                      /\ Reported(scan, p[1], p[2]) <=> above(total(p[1], p[2]))
                      /\ Reported(scan, p[1], p[2]) <=> above(total(p[2], p[1]))
                      /\ SameNameOnly(ents[p[1]], ents[p[2]]) =>
                            /\ total(p[1], p[2]) = Frac(1, 2)
                            /\ ~Reported(scan, p[1], p[2])
            /\ \A f \in DOMAIN scan.found :
                  /\ <<scan.found[f].e1, scan.found[f].e2>> \in Range(scan.evaluated)
                  /\ \A g \in DOMAIN scan.found :
                        (scan.found[g].e1 = scan.found[f].e1 /\
                         scan.found[g].e2 = scan.found[f].e2) => g = f

\* the score is the Jaccard index of the two sets, 0.0 when either is empty
IsJaccard(score, s1, s2) ==
    IF s1 = {} \/ s2 = {} THEN score.num = 0
    ELSE score.num * Cardinality(s1 \cup s2) = score.den * Cardinality(s1 \cap s2)

InUnitInterval(score) == 0 <= score.num /\ score.num <= score.den /\ score.den > 0

LowerKeywords(e) == { Lower(e.keywords[i]) : i \in 1..Len(e.keywords) }

\* C25: the description score and the keyword score are the Jaccard indexes of
\* the lower-cased token sets and keyword sets, 0.0 whenever either set is
\* empty; each component lies in [0,1]; total is 0.5 name + 0.3 description +
\* 0.2 keywords.
C25_SimilarityComponents ==
    verdict.stage # "none" =>
        LET e1 == probe.ents[1]
            e2 == probe.ents[2]
            sc == verdict.scores
        IN  /\ IsJaccard(sc.desc, get_tokens(e1.description), get_tokens(e2.description))
            /\ IsJaccard(sc.keywords, LowerKeywords(e1), LowerKeywords(e2))
            /\ InUnitInterval(sc.name) /\ InUnitInterval(sc.desc)
            /\ InUnitInterval(sc.keywords)
            /\ 10 * sc.total.num * sc.name.den * sc.desc.den * sc.keywords.den
                  = sc.total.den *
                      (5 * sc.name.num * sc.desc.den * sc.keywords.den
                       + 3 * sc.desc.num * sc.name.den * sc.keywords.den
                       + 2 * sc.keywords.num * sc.name.den * sc.desc.den)

\* two entities of one name with empty descriptions and no keywords: both
\* components are 0.0 and the total is half the name score
C25_Witness ==
    /\ verdict.stage = "scored"
    /\ get_tokens(probe.ents[1].description) = {}
    /\ get_tokens(probe.ents[2].description) = {}
    /\ probe.ents[1].keywords = <<>> /\ probe.ents[2].keywords = <<>>
    /\ verdict.scores.desc = Frac(0, 1)
    /\ verdict.scores.keywords = Frac(0, 1)
    /\ verdict.scores.name = Frac(1, 1)
    /\ verdict.scores.total = Frac(1, 2)

=============================================================================
